---- MODULE Spec2Model ----
(***************************************************************************)
(* A model of the string parser of standout-seeker                         *)
(* (crates/standout-seeker/src/parse.rs, schema.rs): parse_operator,       *)
(* parse_key, parse_value with its number / timestamp / calendar helpers,  *)
(* and the parse_query driver loop.                                        *)
(*                                                                         *)
(* Rust &str / String values are TLA+ strings; a character is a string of  *)
(* length one, read with SubSeq(s, i, i).  Option and Result values are    *)
(* records with a "tag" field.                                             *)
(***************************************************************************)
EXTENDS Integers, Sequences, FiniteSets, TLC

VARIABLES
    pc,             \* position of the caller: "call" before, "done" after
    arg,            \* argument(s) of the function under call
    ret,            \* its return value
    pairs,          \* parse_query: the (key, value) pairs supplied
    pos,            \* parse_query: number of pairs the for loop has consumed
    current_group,  \* parse_query: the ClauseGroup register
    query,          \* parse_query: the Query builder accumulator
    result          \* parse_query: the ParseResult<Query> returned

vars == <<pc, arg, ret, pairs, pos, current_group, query, result>>

(***************************************************************************)
(* Option / Result                                                         *)
(***************************************************************************)
None == [tag |-> "None"]
Some(v) == [tag |-> "Some", v |-> v]
Ok(v) == [tag |-> "Ok", v |-> v]
Err(e) == [tag |-> "Err", e |-> e]
NoValue == [tag |-> "Pending"]

(***************************************************************************)
(* Strings                                                                 *)
(***************************************************************************)
CharAt(s, i) == SubSeq(s, i, i)

UpperAlphabet == "ABCDEFGHIJKLMNOPQRSTUVWXYZ"
LowerAlphabet == "abcdefghijklmnopqrstuvwxyz"

\* char::to_lowercase / to_uppercase on the ASCII range
UpperToLower ==
    [c \in {CharAt(UpperAlphabet, i) : i \in 1..26} |->
        CharAt(LowerAlphabet, CHOOSE i \in 1..26 : CharAt(UpperAlphabet, i) = c)]
LowerToUpper ==
    [c \in {CharAt(LowerAlphabet, i) : i \in 1..26} |->
        CharAt(UpperAlphabet, CHOOSE i \in 1..26 : CharAt(LowerAlphabet, i) = c)]

LowerChar(c) == IF c \in DOMAIN UpperToLower THEN UpperToLower[c] ELSE c
UpperChar(c) == IF c \in DOMAIN LowerToUpper THEN LowerToUpper[c] ELSE c

RECURSIVE ToLower(_)
ToLower(s) ==
    IF s = "" THEN "" ELSE LowerChar(Head(s)) \o ToLower(Tail(s))

RECURSIVE ToUpper(_)
ToUpper(s) ==
    IF s = "" THEN "" ELSE UpperChar(Head(s)) \o ToUpper(Tail(s))

\* str::split(c): the parts between the occurrences of c; "" splits to <<"">>
RECURSIVE SplitAcc(_, _, _, _, _)
SplitAcc(s, c, i, cur, out) ==
    IF i > Len(s) THEN Append(out, cur)
    ELSE IF CharAt(s, i) = c
         THEN SplitAcc(s, c, i + 1, "", Append(out, cur))
         ELSE SplitAcc(s, c, i + 1, cur \o CharAt(s, i), out)

Split(s, c) == SplitAcc(s, c, 1, "", <<>>)

\* [&str]::join(sep)
RECURSIVE Join(_, _)
Join(parts, sep) ==
    IF Len(parts) = 0 THEN ""
    ELSE IF Len(parts) = 1 THEN parts[1]
    ELSE parts[1] \o sep \o Join(Tail(parts), sep)

Front(parts) == SubSeq(parts, 1, Len(parts) - 1)
Last(parts) == parts[Len(parts)]

(***************************************************************************)
(* Op, parse_operator, operator_names, parse_key                           *)
(***************************************************************************)
Ops == {"Eq", "Ne", "Gt", "Gte", "Lt", "Lte", "StartsWith", "EndsWith",
        "Contains", "Regex", "Before", "After", "In", "Is"}

\* a mutant of parse_operator: the name is not lower-cased before the match
parse_operator_case_sensitive(str) ==
    LET s == str IN
    CASE s = "eq" -> Some("Eq")
      [] s \in {"ne", "neq"} -> Some("Ne")
      [] s = "gt" -> Some("Gt")
      [] s = "gte" -> Some("Gte")
      [] s = "lt" -> Some("Lt")
      [] s = "lte" -> Some("Lte")
      [] s \in {"startswith", "prefix"} -> Some("StartsWith")
      [] s \in {"endswith", "suffix"} -> Some("EndsWith")
      [] s = "contains" -> Some("Contains")
      [] s \in {"regex", "re", "match"} -> Some("Regex")
      [] s = "before" -> Some("Before")
      [] s = "after" -> Some("After")
      [] s = "in" -> Some("In")
      [] s = "is" -> Some("Is")
      [] OTHER -> None

parse_operator(str) ==
    LET s == ToLower(str) IN
    CASE s = "eq" -> Some("Eq")
      [] s \in {"ne", "neq"} -> Some("Ne")
      [] s = "gt" -> Some("Gt")
      [] s = "gte" -> Some("Gte")
      [] s = "lt" -> Some("Lt")
      [] s = "lte" -> Some("Lte")
      [] s \in {"startswith", "prefix"} -> Some("StartsWith")
      [] s \in {"endswith", "suffix"} -> Some("EndsWith")
      [] s = "contains" -> Some("Contains")
      [] s \in {"regex", "re", "match"} -> Some("Regex")
      [] s = "before" -> Some("Before")
      [] s = "after" -> Some("After")
      [] s = "in" -> Some("In")
      [] s = "is" -> Some("Is")
      [] OTHER -> None

\* a mutant of operator_names: a name parse_operator does not know is listed
operator_names_lists_like ==
    {"eq", "ne", "neq", "gt", "gte", "lt", "lte", "startswith", "prefix",
     "endswith", "suffix", "contains", "regex", "re", "match", "before",
     "after", "in", "is", "like"}

operator_names ==
    {"eq", "ne", "neq", "gt", "gte", "lt", "lte", "startswith", "prefix",
     "endswith", "suffix", "contains", "regex", "re", "match", "before",
     "after", "in", "is"}

\* a mutant of parse_key: the last segment of a key of several segments is
\* always taken off as the operator, recognized or not
parse_key_strips_any_suffix(key) ==
    LET parts == Split(key, "-")
        last == ToLower(Last(parts))
    IN  IF Len(parts) > 1
        THEN [field |-> Join(Front(parts), "-"), op |-> parse_operator(last)]
        ELSE [field |-> key, op |-> None]

\* a mutant of parse_key: the parts.len() > 1 test is dropped
parse_key_no_len_check(key) ==
    LET parts == Split(key, "-")
        last == ToLower(Last(parts))
    IN  IF last \in operator_names
        THEN [field |-> Join(Front(parts), "-"), op |-> parse_operator(last)]
        ELSE [field |-> key, op |-> None]

parse_key(key) ==
    LET parts == Split(key, "-")
        last == ToLower(Last(parts))
    IN  IF Len(parts) > 1 /\ last \in operator_names
        THEN [field |-> Join(Front(parts), "-"), op |-> parse_operator(last)]
        ELSE [field |-> key, op |-> None]

(***************************************************************************)
(* SeekType (schema.rs) and the Op predicates it dispatches to             *)
(***************************************************************************)
SeekTypes == {"String", "Number", "Timestamp", "Enum", "Bool"}

\* a mutant of default_operator: Is for Enum as for Bool
default_operator_is_for_enum(t) ==
    CASE t = "String" -> "Eq"
      [] t = "Number" -> "Eq"
      [] t = "Timestamp" -> "Eq"
      [] t = "Enum" -> "Is"
      [] t = "Bool" -> "Is"

default_operator(t) ==
    CASE t = "String" -> "Eq"
      [] t = "Number" -> "Eq"
      [] t = "Timestamp" -> "Eq"
      [] t = "Enum" -> "Eq"
      [] t = "Bool" -> "Is"

\* Op::is_*_op: the per-type operator sets
is_string_op(op) ==
    op \in {"Eq", "Ne", "StartsWith", "EndsWith", "Contains", "Regex"}
is_number_op(op) == op \in {"Eq", "Ne", "Gt", "Gte", "Lt", "Lte"}
is_timestamp_op(op) ==
    op \in {"Eq", "Ne", "Before", "After", "Gt", "Gte", "Lt", "Lte"}
is_enum_op(op) == op \in {"Eq", "Ne", "In"}
is_bool_op(op) == op \in {"Eq", "Is"}

\* a mutant of is_valid_operator: Timestamp dispatches to the number set
is_valid_operator_ts_as_number(t, op) ==
    CASE t = "String" -> is_string_op(op)
      [] t = "Number" -> is_number_op(op)
      [] t = "Timestamp" -> is_number_op(op)
      [] t = "Enum" -> is_enum_op(op)
      [] t = "Bool" -> is_bool_op(op)

is_valid_operator(t, op) ==
    CASE t = "String" -> is_string_op(op)
      [] t = "Number" -> is_number_op(op)
      [] t = "Timestamp" -> is_timestamp_op(op)
      [] t = "Enum" -> is_enum_op(op)
      [] t = "Bool" -> is_bool_op(op)

(***************************************************************************)
(* Integer literals.  str::parse::<iN / uN>() accepts an optional sign     *)
(* ('+', and '-' for the signed types only) followed by one or more        *)
(* decimal digits, and fails on overflow.  A parsed integer is kept as     *)
(* sign and magnitude, the magnitude a digit string without leading        *)
(* zeros, so that 64-bit values stay exact.                                *)
(***************************************************************************)
Digits == "0123456789"
DigitValues == [c \in {CharAt(Digits, i) : i \in 1..10} |->
                    (CHOOSE i \in 1..10 : CharAt(Digits, i) = c) - 1]
IsDigit(c) == c \in DOMAIN DigitValues
DigitVal(c) == DigitValues[c]
AllDigits(s) == s # "" /\ \A i \in 1..Len(s) : IsDigit(CharAt(s, i))

RECURSIVE StripZeros(_)
StripZeros(s) ==
    IF Len(s) > 1 /\ Head(s) = "0" THEN StripZeros(Tail(s)) ELSE s

\* a <= b for digit strings without leading zeros
RECURSIVE LexLeq(_, _)
LexLeq(a, b) ==
    IF a = "" THEN TRUE
    ELSE IF DigitVal(Head(a)) # DigitVal(Head(b))
         THEN DigitVal(Head(a)) < DigitVal(Head(b))
         ELSE LexLeq(Tail(a), Tail(b))

MagLeq(a, b) == Len(a) < Len(b) \/ (Len(a) = Len(b) /\ LexLeq(a, b))

I64Max == "9223372036854775807"
I64MinMag == "9223372036854775808"
U64Max == "18446744073709551615"
I32Max == "2147483647"
I32MinMag == "2147483648"
U32Max == "4294967295"

IntVal(neg, mag) == [neg |-> neg /\ mag # "0", mag |-> mag]

\* from_str_radix(s, 10) for a signed type with the given bounds
ParseSigned(s, maxMag, minMag) ==
    LET signed == s # "" /\ Head(s) \in {"+", "-"}
        neg == s # "" /\ Head(s) = "-"
        body == IF signed THEN Tail(s) ELSE s
        mag == StripZeros(body)
    IN  IF ~AllDigits(body) THEN None
        ELSE IF MagLeq(mag, IF neg THEN minMag ELSE maxMag)
             THEN Some(IntVal(neg, mag))
             ELSE None

\* from_str_radix(s, 10) for an unsigned type: no '-' sign
ParseUnsigned(s, maxMag) ==
    LET signed == s # "" /\ Head(s) = "+"
        body == IF signed THEN Tail(s) ELSE s
        mag == StripZeros(body)
    IN  IF ~AllDigits(body) THEN None
        ELSE IF MagLeq(mag, maxMag) THEN Some(IntVal(FALSE, mag)) ELSE None

ParseI64(s) == ParseSigned(s, I64Max, I64MinMag)
ParseU64(s) == ParseUnsigned(s, U64Max)
ParseI32(s) == ParseSigned(s, I32Max, I32MinMag)
ParseU32(s) == ParseUnsigned(s, U32Max)

(***************************************************************************)
(* str::parse::<f64>():                                                    *)
(*   Float  ::= Sign? ( 'inf' | 'infinity' | 'nan' | Number )              *)
(*   Number ::= ( Digit+ | Digit+ '.' Digit* | Digit* '.' Digit+ ) Exp?    *)
(*   Exp    ::= 'e' Sign? Digit+          (letters in either case)         *)
(* The parsed f64 is kept as its lower-cased literal: the model has no     *)
(* floating point, and nothing below depends on the rounded value.         *)
(***************************************************************************)
DigitsOrEmpty(s) == s = "" \/ AllDigits(s)

IsMantissa(s) ==
    LET p == Split(s, ".") IN
    \/ Len(p) = 1 /\ AllDigits(p[1])
    \/ /\ Len(p) = 2
       /\ DigitsOrEmpty(p[1]) /\ DigitsOrEmpty(p[2])
       /\ (p[1] # "" \/ p[2] # "")

IsExponent(s) ==
    AllDigits(IF s # "" /\ Head(s) \in {"+", "-"} THEN Tail(s) ELSE s)

ParseF64(s) ==
    LET body == ToLower(IF s # "" /\ Head(s) \in {"+", "-"} THEN Tail(s) ELSE s)
        p == Split(body, "e")
        ok == \/ body \in {"inf", "infinity", "nan"}
              \/ Len(p) = 1 /\ IsMantissa(p[1])
              \/ Len(p) = 2 /\ IsMantissa(p[1]) /\ IsExponent(p[2])
    IN  IF ok THEN Some(ToLower(s)) ELSE None

(***************************************************************************)
(* ParseError, ClauseValue, parse_number                                   *)
(***************************************************************************)
InvalidValue(field, value, expected, reason) ==
    [kind |-> "InvalidValue", field |-> field, value |-> value,
     expected |-> expected, reason |-> reason]

NumberI64(n) == [type |-> "Number", variant |-> "I64", n |-> n]
NumberU64(n) == [type |-> "Number", variant |-> "U64", n |-> n]
NumberF64(n) == [type |-> "Number", variant |-> "F64", n |-> n]

\* a mutant of parse_number: the unsigned parse is tried first
parse_number_unsigned_first(value, field) ==
    IF ParseU64(value) # None THEN Ok(NumberU64(ParseU64(value).v))
    ELSE IF ParseI64(value) # None THEN Ok(NumberI64(ParseI64(value).v))
    ELSE IF ParseF64(value) # None THEN Ok(NumberF64(ParseF64(value).v))
    ELSE Err(InvalidValue(field, value, "Number",
                          "expected integer or decimal number"))

parse_number(value, field) ==
    IF ParseI64(value) # None THEN Ok(NumberI64(ParseI64(value).v))
    ELSE IF ParseU64(value) # None THEN Ok(NumberU64(ParseU64(value).v))
    ELSE IF ParseF64(value) # None THEN Ok(NumberF64(ParseF64(value).v))
    ELSE Err(InvalidValue(field, value, "Number",
                          "expected integer or decimal number"))

(***************************************************************************)
(* Calendar arithmetic: is_leap_year, days_from_year, days_from_ymd        *)
(***************************************************************************)
\* a mutant of is_leap_year: the 400-year rule is missing
is_leap_year_no_400(year) == year % 4 = 0 /\ year % 100 # 0

is_leap_year(year) == (year % 4 = 0 /\ year % 100 # 0) \/ (year % 400 = 0)

\* both for loops: the lengths of the years a .. b-1 added up (the range
\* is summed by halves, which keeps the evaluation shallow)
RECURSIVE SumYearLengths(_, _)
SumYearLengths(a, b) ==
    IF a >= b THEN 0
    ELSE IF b = a + 1 THEN (IF is_leap_year(a) THEN 366 ELSE 365)
    ELSE LET mid == (a + b) \div 2
         IN  SumYearLengths(a, mid) + SumYearLengths(mid, b)

\* a mutant of days_from_year: the year itself is counted (1970..=year)
days_from_year_inclusive(year) ==
    IF year >= 1970 THEN SumYearLengths(1970, year + 1)
    ELSE 0 - SumYearLengths(year, 1970)

days_from_year(year) ==
    IF year >= 1970 THEN SumYearLengths(1970, year)
    ELSE 0 - SumYearLengths(year, 1970)

days_in_months == <<31, 28, 31, 30, 31, 30, 31, 31, 30, 31, 30, 31>>

\* the "completed months" loop: for m in 1..month
RECURSIVE SumMonths(_, _, _)
SumMonths(m, month, leap) ==
    IF m >= month THEN 0
    ELSE days_in_months[m] + (IF m = 2 /\ leap THEN 1 ELSE 0)
            + SumMonths(m + 1, month, leap)

\* month as usize - 1 with month = 0: a panic where overflow checks are
\* compiled in, a wrapped index (and so None) where they are not
Underflow == [tag |-> "Underflow"]
Panic == [tag |-> "Panic"]

\* a mutant of days_from_ymd: the day is clamped to the month's length
days_from_ymd_clamping(year, month, day) ==
    LET leap == is_leap_year(year) IN
    IF month = 0 THEN Underflow
    ELSE IF ~(month = 2 /\ leap) /\ month > Len(days_in_months) THEN None
    ELSE LET max_day == IF month = 2 /\ leap THEN 29
                        ELSE days_in_months[month]
             d == IF day > max_day THEN max_day ELSE day
         IN  Some(days_from_year(year) + SumMonths(1, month, leap) + d - 1)

days_from_ymd(year, month, day) ==
    LET leap == is_leap_year(year) IN
    IF month = 0 THEN Underflow
    ELSE IF ~(month = 2 /\ leap) /\ month > Len(days_in_months) THEN None
    ELSE LET max_day == IF month = 2 /\ leap THEN 29
                        ELSE days_in_months[month]
         IN  IF day > max_day THEN None
             ELSE Some(days_from_year(year) + SumMonths(1, month, leap)
                        + day - 1)

(***************************************************************************)
(* Timestamp: i64 milliseconds since the epoch.  The model keeps the value *)
(* days * MsPerDay + ms in two limbs, 0 <= ms < MsPerDay, because its      *)
(* integers are 32 bits wide.                                              *)
(***************************************************************************)
MsPerDay == 24 * 60 * 60 * 1000

Timestamp(days, ms) == [type |-> "Timestamp", days |-> days, ms |-> ms]

\* the u32 / i32 value of a magnitude; exact below 10^9, and 10^9 for the
\* larger ones, which every range check that follows a parse rejects
RECURSIVE NatOfAcc(_, _)
NatOfAcc(mag, acc) ==
    IF mag = "" THEN acc ELSE NatOfAcc(Tail(mag), acc * 10 + DigitVal(Head(mag)))

NatOf(mag) == IF Len(mag) > 9 THEN 1000000000 ELSE NatOfAcc(mag, 0)

IntOf(n) == IF n.neg THEN 0 - NatOf(n.mag) ELSE NatOf(n.mag)

\* the limbs of a magnitude of milliseconds (exact below 10^17)
RECURSIVE LimbsAcc(_, _, _)
LimbsAcc(mag, d, r) ==
    IF mag = "" THEN <<d, r>>
    ELSE LET t == r * 10 + DigitVal(Head(mag))
         IN  LimbsAcc(Tail(mag), d * 10 + t \div MsPerDay, t % MsPerDay)

TimestampOfMillis(n) ==
    LET l == LimbsAcc(n.mag, 0, 0) IN
    IF ~n.neg THEN Timestamp(l[1], l[2])
    ELSE IF l[2] = 0 THEN Timestamp(0 - l[1], 0)
    ELSE Timestamp(0 - l[1] - 1, MsPerDay - l[2])

(***************************************************************************)
(* parse_date_only, parse_datetime, parse_timestamp                        *)
(***************************************************************************)
\* a mutant of parse_date_only_call: the range check before the call is gone
parse_date_only_call_unchecked(value) ==
    LET parts == Split(value, "-") IN
    IF Len(parts) # 3 THEN None
    ELSE IF \/ ParseI32(parts[1]) = None
            \/ ParseU32(parts[2]) = None
            \/ ParseU32(parts[3]) = None THEN None
    ELSE LET year == IntOf(ParseI32(parts[1]).v)
             month == IntOf(ParseU32(parts[2]).v)
             day == IntOf(ParseU32(parts[3]).v)
         IN  Some([year |-> year, month |-> month, day |-> day])

\* parse_date_only down to its call of days_from_ymd: None where it returns
\* before the call, else Some of the arguments of the call
parse_date_only_call(value) ==
    LET parts == Split(value, "-") IN
    IF Len(parts) # 3 THEN None
    ELSE IF \/ ParseI32(parts[1]) = None
            \/ ParseU32(parts[2]) = None
            \/ ParseU32(parts[3]) = None THEN None
    ELSE LET year == IntOf(ParseI32(parts[1]).v)
             month == IntOf(ParseU32(parts[2]).v)
             day == IntOf(ParseU32(parts[3]).v)
         IN  IF ~(month \in 1..12) \/ ~(day \in 1..31) THEN None
             ELSE Some([year |-> year, month |-> month, day |-> day])

\* Some(Timestamp { days, ms }) of what days_from_ymd returned
TimestampOnDay(days, ms) ==
    IF days.tag # "Some" THEN days ELSE Some(Timestamp(days.v, ms))

\* the call of days_from_ymd and what follows it
DateOnlyCalled(call) ==
    IF call = None THEN None
    ELSE TimestampOnDay(days_from_ymd(call.v.year, call.v.month, call.v.day), 0)

parse_date_only(value) == DateOnlyCalled(parse_date_only_call(value))

\* str::trim_end_matches(c)
RECURSIVE TrimEndMatches(_, _)
TrimEndMatches(s, c) ==
    IF s # "" /\ CharAt(s, Len(s)) = c
    THEN TrimEndMatches(SubSeq(s, 1, Len(s) - 1), c)
    ELSE s

\* a mutant of parse_datetime: the fraction is not cut off the seconds
parse_datetime_keeps_fraction(v) ==
    LET value == TrimEndMatches(v, "Z")
        parts == Split(value, "T")
    IN  IF Len(parts) # 2 THEN None
        ELSE
        LET date_parts == Split(parts[1], "-")
            time_parts == Split(parts[2], ":")
        IN  IF Len(date_parts) # 3 \/ Len(time_parts) # 3 THEN None
            ELSE
            LET second_str == time_parts[3] IN
            IF \/ ParseI32(date_parts[1]) = None
               \/ ParseU32(date_parts[2]) = None
               \/ ParseU32(date_parts[3]) = None
               \/ ParseU32(time_parts[1]) = None
               \/ ParseU32(time_parts[2]) = None
               \/ ParseU32(second_str) = None THEN None
            ELSE
            LET year == IntOf(ParseI32(date_parts[1]).v)
                month == IntOf(ParseU32(date_parts[2]).v)
                day == IntOf(ParseU32(date_parts[3]).v)
                hour == IntOf(ParseU32(time_parts[1]).v)
                minute == IntOf(ParseU32(time_parts[2]).v)
                second == IntOf(ParseU32(second_str).v)
            IN  IF \/ ~(month \in 1..12)
                   \/ ~(day \in 1..31)
                   \/ hour >= 24
                   \/ minute >= 60
                   \/ second >= 60 THEN None
                ELSE
                LET days == days_from_ymd(year, month, day)
                    seconds == hour * 3600 + minute * 60 + second
                IN  IF days.tag # "Some" THEN days
                    ELSE Some(Timestamp(days.v, seconds * 1000))

\* parse_datetime down to its call of days_from_ymd: None where it returns
\* before the call, else Some of the arguments of the call and the seconds
\* of the day
parse_datetime_call(v) ==
    LET value == TrimEndMatches(v, "Z")
        parts == Split(value, "T")
    IN  IF Len(parts) # 2 THEN None
        ELSE
        LET date_parts == Split(parts[1], "-")
            time_parts == Split(parts[2], ":")
        IN  IF Len(date_parts) # 3 \/ Len(time_parts) # 3 THEN None
            ELSE
            LET second_str == Split(time_parts[3], ".")[1] IN
            IF \/ ParseI32(date_parts[1]) = None
               \/ ParseU32(date_parts[2]) = None
               \/ ParseU32(date_parts[3]) = None
               \/ ParseU32(time_parts[1]) = None
               \/ ParseU32(time_parts[2]) = None
               \/ ParseU32(second_str) = None THEN None
            ELSE
            LET year == IntOf(ParseI32(date_parts[1]).v)
                month == IntOf(ParseU32(date_parts[2]).v)
                day == IntOf(ParseU32(date_parts[3]).v)
                hour == IntOf(ParseU32(time_parts[1]).v)
                minute == IntOf(ParseU32(time_parts[2]).v)
                second == IntOf(ParseU32(second_str).v)
            IN  IF \/ ~(month \in 1..12)
                   \/ ~(day \in 1..31)
                   \/ hour >= 24
                   \/ minute >= 60
                   \/ second >= 60 THEN None
                ELSE Some([year |-> year, month |-> month, day |-> day,
                           seconds |-> hour * 3600 + minute * 60 + second])

\* the call of days_from_ymd and what follows it
DatetimeCalled(call) ==
    IF call = None THEN None
    ELSE TimestampOnDay(days_from_ymd(call.v.year, call.v.month, call.v.day),
                        call.v.seconds * 1000)

parse_datetime(v) == DatetimeCalled(parse_datetime_call(v))

parse_timestamp(value, field) ==
    IF ParseI64(value) # None
    THEN Ok(TimestampOfMillis(ParseI64(value).v))
    ELSE IF parse_date_only(value) # None
    THEN (IF parse_date_only(value).tag = "Some"
          THEN Ok(parse_date_only(value).v) ELSE parse_date_only(value))
    ELSE IF parse_datetime(value) # None
    THEN (IF parse_datetime(value).tag = "Some"
          THEN Ok(parse_datetime(value).v) ELSE parse_datetime(value))
    ELSE IF Len(value) = 4 /\ ParseI32(value) # None
    THEN Ok(Timestamp(days_from_year(IntOf(ParseI32(value).v)), 0))
    ELSE Err(InvalidValue(field, value, "Timestamp",
             "expected Unix timestamp (ms), ISO date (YYYY-MM-DD), or datetime"))

(***************************************************************************)
(* The schema: the type parameter S of parse_query::<S> and                *)
(* parse_value::<S>.  A caller names its implementation of SeekerSchema in *)
(* arg.schema, as the sequence of its field names and the sequence of      *)
(* their types; it keeps the default resolve_enum_variant of the trait.    *)
(* A caller that names none uses the schema of the parser's tests          *)
(* (TestTask).                                                             *)
(***************************************************************************)
Schema(names, types) == [names |-> names, types |-> types]

CallerSchema == "schema" \in DOMAIN arg

\* S::field_type of a schema the caller names
SchemaFieldType(schema, field) ==
    IF \E i \in DOMAIN schema.names : schema.names[i] = field
    THEN Some(schema.types[CHOOSE i \in DOMAIN schema.names :
                                schema.names[i] = field])
    ELSE None

field_type(field) ==
    IF CallerSchema THEN SchemaFieldType(arg.schema, field)
    ELSE
    CASE field = "name" -> Some("String")
      [] field = "priority" -> Some("Number")
      [] field = "created-at" -> Some("Timestamp")
      [] field = "status" -> Some("Enum")
      [] field = "done" -> Some("Bool")
      [] OTHER -> None

field_names ==
    IF CallerSchema THEN arg.schema.names
    ELSE <<"name", "priority", "created-at", "status", "done">>

resolve_enum_variant(field, variant) ==
    IF CallerSchema THEN None
    ELSE
    IF field = "status"
    THEN LET v == ToLower(variant) IN
         CASE v = "pending" -> Some(IntVal(FALSE, "0"))
           [] v = "active" -> Some(IntVal(FALSE, "1"))
           [] v = "done" -> Some(IntVal(FALSE, "2"))
           [] OTHER -> None
    ELSE None

(***************************************************************************)
(* parse_enum, parse_bool, parse_value                                     *)
(***************************************************************************)
IsSpace(c) == c \in {" ", "\t", "\n", "\r"}

\* str::trim
RECURSIVE TrimStart(_)
TrimStart(s) == IF s # "" /\ IsSpace(Head(s)) THEN TrimStart(Tail(s)) ELSE s
RECURSIVE TrimEnd(_)
TrimEnd(s) ==
    IF s # "" /\ IsSpace(CharAt(s, Len(s)))
    THEN TrimEnd(SubSeq(s, 1, Len(s) - 1)) ELSE s
Trim(s) == TrimEnd(TrimStart(s))

parse_single_enum(value, field) ==
    IF ParseU32(value) # None THEN Ok(ParseU32(value).v)
    ELSE IF resolve_enum_variant(field, value) # None
    THEN Ok(resolve_enum_variant(field, value).v)
    ELSE Err(InvalidValue(field, value, "Enum",
                          "expected numeric discriminant or variant name"))

\* a mutant of the loop of parse_enum: a part that does not resolve is left
\* out of the set
RECURSIVE EnumParts_skips_unresolved(_, _, _, _)
EnumParts_skips_unresolved(parts, i, field, discriminants) ==
    IF i > Len(parts) THEN Ok([type |-> "EnumSet", set |-> discriminants])
    ELSE LET disc == parse_single_enum(Trim(parts[i]), field) IN
         IF disc.tag = "Err"
         THEN EnumParts_skips_unresolved(parts, i + 1, field, discriminants)
         ELSE EnumParts_skips_unresolved(parts, i + 1, field,
                                         Append(discriminants, disc.v))

\* the for loop of parse_enum over value.split(','), from part i on
RECURSIVE EnumParts(_, _, _, _)
EnumParts(parts, i, field, discriminants) ==
    IF i > Len(parts) THEN Ok([type |-> "EnumSet", set |-> discriminants])
    ELSE LET disc == parse_single_enum(Trim(parts[i]), field) IN
         IF disc.tag = "Err" THEN disc
         ELSE EnumParts(parts, i + 1, field, Append(discriminants, disc.v))

parse_enum(value, field, op) ==
    IF op = "In" THEN EnumParts(Split(value, ","), 1, field, <<>>)
    ELSE LET disc == parse_single_enum(value, field) IN
         IF disc.tag = "Err" THEN disc
         ELSE Ok([type |-> "Enum", disc |-> disc.v])

\* a mutant of parse_bool: the value is matched as it is written
parse_bool_case_sensitive(value, field) ==
    LET lower == value IN
    IF lower \in {"true", "1", "yes", "on"} THEN Ok([type |-> "Bool", b |-> TRUE])
    ELSE IF lower \in {"false", "0", "no", "off"}
    THEN Ok([type |-> "Bool", b |-> FALSE])
    ELSE Err(InvalidValue(field, value, "Bool",
                          "expected true/false, 1/0, yes/no, or on/off"))

parse_bool(value, field) ==
    LET lower == ToLower(value) IN
    IF lower \in {"true", "1", "yes", "on"} THEN Ok([type |-> "Bool", b |-> TRUE])
    ELSE IF lower \in {"false", "0", "no", "off"}
    THEN Ok([type |-> "Bool", b |-> FALSE])
    ELSE Err(InvalidValue(field, value, "Bool",
                          "expected true/false, 1/0, yes/no, or on/off"))

\* regex::Regex::new succeeds: of the syntax of the regex crate the model
\* keeps that groups must be closed and that nothing can be repeated at the
\* start of the pattern
RECURSIVE ParenDepth(_, _)
ParenDepth(s, depth) ==
    IF s = "" THEN depth
    ELSE IF depth < 0 THEN depth
    ELSE ParenDepth(Tail(s), depth + (IF Head(s) = "(" THEN 1
                                      ELSE IF Head(s) = ")" THEN 0 - 1 ELSE 0))

RegexCompiles(pattern) ==
    /\ ParenDepth(pattern, 0) = 0
    /\ ~(pattern # "" /\ Head(pattern) \in {"*", "+", "?"})

parse_value(value, field, ftype, op) ==
    CASE ftype = "String" ->
            IF op = "Regex"
            THEN IF RegexCompiles(value)
                 THEN Ok([type |-> "Regex", pattern |-> value])
                 ELSE Err([kind |-> "InvalidRegex", field |-> field,
                           pattern |-> value])
            ELSE Ok([type |-> "String", s |-> value])
      [] ftype = "Number" -> parse_number(value, field)
      [] ftype = "Timestamp" -> parse_timestamp(value, field)
      [] ftype = "Enum" -> parse_enum(value, field, op)
      [] ftype = "Bool" -> parse_bool(value, field)

(***************************************************************************)
(* parse_ordering                                                          *)
(***************************************************************************)
InvalidOrdering(value, reason) ==
    [kind |-> "InvalidOrdering", value |-> value, reason |-> reason]

\* a mutant of parse_ordering: the field.is_empty() test is dropped
parse_ordering_keeps_empty_field(value) ==
    LET parts == Split(value, "-")
        last == ToLower(Last(parts))
        fd == IF last = "asc"
              THEN [field |-> Join(Front(parts), "-"), dir |-> "Asc"]
              ELSE IF last = "desc"
              THEN [field |-> Join(Front(parts), "-"), dir |-> "Desc"]
              ELSE [field |-> value, dir |-> "Asc"]
    IN  IF Len(parts) = 0
        THEN Err(InvalidOrdering(value, "empty ordering specification"))
        ELSE Ok(fd)

parse_ordering(value) ==
    LET parts == Split(value, "-")
        last == ToLower(Last(parts))
        fd == IF last = "asc"
              THEN [field |-> Join(Front(parts), "-"), dir |-> "Asc"]
              ELSE IF last = "desc"
              THEN [field |-> Join(Front(parts), "-"), dir |-> "Desc"]
              ELSE [field |-> value, dir |-> "Asc"]
    IN  IF Len(parts) = 0
        THEN Err(InvalidOrdering(value, "empty ordering specification"))
        ELSE IF fd.field = ""
        THEN Err(InvalidOrdering(value, "missing field name"))
        ELSE Ok(fd)

(***************************************************************************)
(* The Query builder: the clause list keeps, for each leaf, the builder    *)
(* method that added it                                                    *)
(***************************************************************************)
QueryNew == [clauses |-> <<>>, order_by |-> <<>>, limit |-> None, offset |-> None]

Leaf(group, field, op, value) ==
    [group |-> group, field |-> field, op |-> op, value |-> value]

QueryAnd(q, field, op, value) ==
    [q EXCEPT !.clauses = Append(@, Leaf("And", field, op, value))]
QueryOr(q, field, op, value) ==
    [q EXCEPT !.clauses = Append(@, Leaf("Or", field, op, value))]
QueryNot(q, field, op, value) ==
    [q EXCEPT !.clauses = Append(@, Leaf("Not", field, op, value))]
QueryOrderBy(q, field, dir) ==
    [q EXCEPT !.order_by = Append(@, [field |-> field, dir |-> dir])]
QueryLimit(q, n) == [q EXCEPT !.limit = Some(n)]
QueryOffset(q, n) == [q EXCEPT !.offset = Some(n)]
QueryBuild(q) == q

(***************************************************************************)
(* parse_query: the body of the for loop, one pair at a time               *)
(***************************************************************************)
GroupMarkers == {"AND", "OR", "NOT"}
OrderKeys == {"order", "orderby", "order-by", "sort"}
LimitKeys == {"limit"}
OffsetKeys == {"offset", "skip"}
SpecialKeys == OrderKeys \cup LimitKeys \cup OffsetKeys

IsGroupMarker(key) == ToUpper(key) \in GroupMarkers
IsSpecialKey(key) == ~IsGroupMarker(key) /\ ToLower(key) \in SpecialKeys
IsFieldKey(key) == ~IsGroupMarker(key) /\ ~IsSpecialKey(key)

\* match key_upper { "AND" => .., "OR" => .., "NOT" => .. }
MarkerGroup(key) ==
    LET key_upper == ToUpper(key) IN
    CASE key_upper = "AND" -> "And"
      [] key_upper = "OR" -> "Or"
      [] key_upper = "NOT" -> "Not"

InvalidLimit(key, value) ==
    [kind |-> "InvalidLimit", key |-> key, value |-> value]

\* a mutant of SpecialPair: the field of an ordering is looked up in the
\* schema
SpecialPair_checks_schema(q, key, value) ==
    LET key_lower == ToLower(key) IN
    CASE key_lower \in OrderKeys ->
            LET order == parse_ordering(value) IN
            IF order.tag = "Err" THEN order
            ELSE IF field_type(order.v.field) = None
            THEN Err([kind |-> "UnknownField", field |-> order.v.field,
                      available |-> field_names])
            ELSE Ok(QueryOrderBy(q, order.v.field, order.v.dir))
      [] key_lower \in LimitKeys ->
            IF ParseU64(value) = None THEN Err(InvalidLimit("limit", value))
            ELSE Ok(QueryLimit(q, ParseU64(value).v))
      [] key_lower \in OffsetKeys ->
            IF ParseU64(value) = None THEN Err(InvalidLimit("offset", value))
            ELSE Ok(QueryOffset(q, ParseU64(value).v))

\* a mutant of SpecialPair: a limit or offset already set is kept
SpecialPair_keeps_first(q, key, value) ==
    LET key_lower == ToLower(key) IN
    CASE key_lower \in OrderKeys ->
            LET order == parse_ordering(value) IN
            IF order.tag = "Err" THEN order
            ELSE Ok(QueryOrderBy(q, order.v.field, order.v.dir))
      [] key_lower \in LimitKeys ->
            IF ParseU64(value) = None THEN Err(InvalidLimit("limit", value))
            ELSE IF q.limit # None THEN Ok(q)
            ELSE Ok(QueryLimit(q, ParseU64(value).v))
      [] key_lower \in OffsetKeys ->
            IF ParseU64(value) = None THEN Err(InvalidLimit("offset", value))
            ELSE IF q.offset # None THEN Ok(q)
            ELSE Ok(QueryOffset(q, ParseU64(value).v))

\* match key_lower { order.. => .., "limit" => .., offset.. => .. }:
\* Ok(the query after the pair) or Err(the error returned)
SpecialPair(q, key, value) ==
    LET key_lower == ToLower(key) IN
    CASE key_lower \in OrderKeys ->
            LET order == parse_ordering(value) IN
            IF order.tag = "Err" THEN order
            ELSE Ok(QueryOrderBy(q, order.v.field, order.v.dir))
      [] key_lower \in LimitKeys ->
            IF ParseU64(value) = None THEN Err(InvalidLimit("limit", value))
            ELSE Ok(QueryLimit(q, ParseU64(value).v))
      [] key_lower \in OffsetKeys ->
            IF ParseU64(value) = None THEN Err(InvalidLimit("offset", value))
            ELSE Ok(QueryOffset(q, ParseU64(value).v))

UnknownField(field) ==
    [kind |-> "UnknownField", field |-> field, available |-> field_names]

InvalidOperator(field, op, ftype) ==
    [kind |-> "InvalidOperator", field |-> field, operator |-> op,
     field_type |-> ftype]

\* a mutant of AddClause: a clause of the group Or is added through and()
AddClause_or_through_and(q, group, field, op, clause_value) ==
    CASE group = "And" -> QueryAnd(q, field, op, clause_value)
      [] group = "Or" -> QueryAnd(q, field, op, clause_value)
      [] group = "Not" -> QueryNot(q, field, op, clause_value)

\* a mutant of AddClause: a clause of the group And is added through or()
AddClause_and_through_or(q, group, field, op, clause_value) ==
    CASE group = "And" -> QueryOr(q, field, op, clause_value)
      [] group = "Or" -> QueryOr(q, field, op, clause_value)
      [] group = "Not" -> QueryNot(q, field, op, clause_value)

\* match current_group { And => query.and(..), Or => query.or(..), .. }
AddClause(q, group, field, op, clause_value) ==
    CASE group = "And" -> QueryAnd(q, field, op, clause_value)
      [] group = "Or" -> QueryOr(q, field, op, clause_value)
      [] group = "Not" -> QueryNot(q, field, op, clause_value)

\* a mutant of FieldPair: the operator is validated before the field is
\* looked up, against the type String when the field is unknown
FieldPair_operator_first(q, group, key, v) ==
    LET pk == parse_key(key)
        field == pk.field
        ft == field_type(field)
        ftype == IF ft = None THEN "String" ELSE ft.v
        op == IF pk.op = None THEN default_operator(ftype) ELSE pk.op.v
    IN  IF ~is_valid_operator(ftype, op)
        THEN Err(InvalidOperator(field, op, ftype))
        ELSE IF ft = None THEN Err(UnknownField(field))
        ELSE
        LET value == IF v = "" /\ ftype = "Bool" THEN "true" ELSE v
            clause_value == parse_value(value, field, ftype, op)
        IN  IF clause_value.tag = "Err" THEN clause_value
            ELSE Ok(AddClause(q, group, field, op, clause_value.v))

\* a mutant of FieldPair: an empty value is passed on as it is
FieldPair_no_coercion(q, group, key, v) ==
    LET pk == parse_key(key)
        field == pk.field
        ft == field_type(field)
    IN  IF ft = None THEN Err(UnknownField(field))
        ELSE
        LET ftype == ft.v
            op == IF pk.op = None THEN default_operator(ftype) ELSE pk.op.v
        IN  IF ~is_valid_operator(ftype, op)
            THEN Err(InvalidOperator(field, op, ftype))
            ELSE
            LET clause_value == parse_value(v, field, ftype, op)
            IN  IF clause_value.tag = "Err" THEN clause_value
                ELSE Ok(AddClause(q, group, field, op, clause_value.v))

\* a mutant of FieldPair: the operator is not validated against the type
FieldPair_no_operator_check(q, group, key, v) ==
    LET pk == parse_key(key)
        field == pk.field
        ft == field_type(field)
    IN  IF ft = None THEN Err(UnknownField(field))
        ELSE
        LET ftype == ft.v
            op == IF pk.op = None THEN default_operator(ftype) ELSE pk.op.v
            value == IF v = "" /\ ftype = "Bool" THEN "true" ELSE v
            clause_value == parse_value(value, field, ftype, op)
        IN  IF clause_value.tag = "Err" THEN clause_value
            ELSE Ok(AddClause(q, group, field, op, clause_value.v))

\* a mutant of FieldPair: a key that is itself a field of the schema is not
\* split
FieldPair_whole_key_first(q, group, key, v) ==
    LET pk == IF field_type(key) # None THEN [field |-> key, op |-> None]
              ELSE parse_key(key)
        field == pk.field
        ft == field_type(field)
    IN  IF ft = None THEN Err(UnknownField(field))
        ELSE
        LET ftype == ft.v
            op == IF pk.op = None THEN default_operator(ftype) ELSE pk.op.v
        IN  IF ~is_valid_operator(ftype, op)
            THEN Err(InvalidOperator(field, op, ftype))
            ELSE
            LET value == IF v = "" /\ ftype = "Bool" THEN "true" ELSE v
                clause_value == parse_value(value, field, ftype, op)
            IN  IF clause_value.tag = "Err" THEN clause_value
                ELSE Ok(AddClause(q, group, field, op, clause_value.v))

\* the rest of the loop body, for a key that is no marker and no special
\* key: Ok(the query after the pair) or Err(the error returned)
FieldPair(q, group, key, v) ==
    LET pk == parse_key(key)
        field == pk.field
        ft == field_type(field)
    IN  IF ft = None THEN Err(UnknownField(field))
        ELSE
        LET ftype == ft.v
            op == IF pk.op = None THEN default_operator(ftype) ELSE pk.op.v
        IN  IF ~is_valid_operator(ftype, op)
            THEN Err(InvalidOperator(field, op, ftype))
            ELSE
            LET value == IF v = "" /\ ftype = "Bool" THEN "true" ELSE v
                clause_value == parse_value(value, field, ftype, op)
            IN  IF clause_value.tag = "Err" THEN clause_value
                ELSE Ok(AddClause(q, group, field, op, clause_value.v))

(***************************************************************************)
(* Idle values of the variables a specification does not use               *)
(***************************************************************************)
PqIdle ==
    /\ pairs = <<>>
    /\ pos = 0
    /\ current_group = "And"
    /\ query = NoValue
    /\ result = NoValue

(***************************************************************************)
(* SpecKey: a caller of parse_key                                          *)
(***************************************************************************)
MaxSegs == 3

\* segments the keys are built from: every operator name, some of them in
\* other letter cases, and words that are no operator
OperatorWords == operator_names \cup {"EQ", "Contains", "BEFORE", "Neq", "iN"}
FieldWords == {"name", "created", "at", "equal", "", "in", "EQ"}
SegmentWords == OperatorWords \cup FieldWords \cup {"equals", "priority", "e"}

SeqsUpTo(S, n) == UNION {[1..k -> S] : k \in 0..n}

Keys ==
    {Join(Append(pre, last), "-") :
        pre \in SeqsUpTo(FieldWords, MaxSegs - 1), last \in SegmentWords}

InitKey ==
    /\ pc = "call"
    /\ arg \in Keys
    /\ ret = NoValue
    /\ PqIdle

CallParseKey ==
    /\ pc = "call"
    /\ ret' = parse_key(arg)
    /\ pc' = "done"
    /\ UNCHANGED <<arg, pairs, pos, current_group, query, result>>

NextKey == CallParseKey

SpecKey == InitKey /\ [][NextKey]_vars

\* the operator names of the specification's table, with the Op of each
SpecOperatorTable ==
    [n \in {"eq", "ne", "neq", "gt", "gte", "lt", "lte", "startswith",
            "prefix", "endswith", "suffix", "contains", "regex", "re",
            "match", "before", "after", "in", "is"} |->
        CASE n = "eq" -> "Eq"
          [] n = "ne" -> "Ne"
          [] n = "neq" -> "Ne"
          [] n = "gt" -> "Gt"
          [] n = "gte" -> "Gte"
          [] n = "lt" -> "Lt"
          [] n = "lte" -> "Lte"
          [] n = "startswith" -> "StartsWith"
          [] n = "prefix" -> "StartsWith"
          [] n = "endswith" -> "EndsWith"
          [] n = "suffix" -> "EndsWith"
          [] n = "contains" -> "Contains"
          [] n = "regex" -> "Regex"
          [] n = "re" -> "Regex"
          [] n = "match" -> "Regex"
          [] n = "before" -> "Before"
          [] n = "after" -> "After"
          [] n = "in" -> "In"
          [] n = "is" -> "Is"]

\* index of the last '-' of s, 0 when s has none
LastDash(s) ==
    LET at == {i \in 1..Len(s) : CharAt(s, i) = "-"}
    IN  IF at = {} THEN 0 ELSE CHOOSE i \in at : \A j \in at : j <= i

\* C1: parse_key strips the last '-'-separated segment exactly when the key
\* has at least two segments and that segment, lower-cased, is a recognized
\* operator name; the field is then everything before the last '-' and the
\* operator the one the name stands for; otherwise the field is the whole
\* key and the operator is None.
C1_ParseKeySplitsTrailingOperator ==
    pc = "done" =>
        LET d == LastDash(arg)
            suffix == ToLower(SubSeq(arg, d + 1, Len(arg)))
        IN  IF d > 0 /\ suffix \in DOMAIN SpecOperatorTable
            THEN ret = [field |-> SubSeq(arg, 1, d - 1),
                        op |-> Some(SpecOperatorTable[suffix])]
            ELSE ret = [field |-> arg, op |-> None]

C1_Witness ==
    /\ pc = "done"
    /\ arg = "created-at-BEFORE"
    /\ ret = [field |-> "created-at", op |-> Some("Before")]

(***************************************************************************)
(* SpecOp: a caller of SeekType::is_valid_operator and default_operator    *)
(***************************************************************************)
InitOp ==
    /\ pc = "call"
    /\ arg \in [t : SeekTypes, op : Ops]
    /\ ret = NoValue
    /\ PqIdle

CallIsValidOperator ==
    /\ pc = "call"
    /\ ret' = [fn |-> "is_valid_operator", v |-> is_valid_operator(arg.t, arg.op)]
    /\ pc' = "done"
    /\ UNCHANGED <<arg, pairs, pos, current_group, query, result>>

CallDefaultOperator ==
    /\ pc = "call"
    /\ ret' = [fn |-> "default_operator", v |-> default_operator(arg.t)]
    /\ pc' = "done"
    /\ UNCHANGED <<arg, pairs, pos, current_group, query, result>>

NextOp == CallIsValidOperator \/ CallDefaultOperator

SpecOp == InitOp /\ [][NextOp]_vars

\* the compatibility table of the specification
CompatibilityTable ==
    [t \in {"String", "Number", "Timestamp", "Enum", "Bool"} |->
        CASE t = "String" ->
                {"Eq", "Ne", "StartsWith", "EndsWith", "Contains", "Regex"}
          [] t = "Number" -> {"Eq", "Ne", "Gt", "Gte", "Lt", "Lte"}
          [] t = "Timestamp" ->
                {"Eq", "Ne", "Before", "After", "Gt", "Gte", "Lt", "Lte"}
          [] t = "Enum" -> {"Eq", "Ne", "In"}
          [] t = "Bool" -> {"Eq", "Is"}]

\* C3: for each of the 5 x 14 (SeekType, Op) pairs, is_valid_operator is
\* true exactly when the compatibility table lists the operator for the type.
C3_IsValidOperatorMatchesTable ==
    (pc = "done" /\ ret.fn = "is_valid_operator") =>
        (ret.v <=> arg.op \in CompatibilityTable[arg.t])

C3_Witness ==
    /\ pc = "done"
    /\ ret.fn = "is_valid_operator"
    /\ ret.v = TRUE
    /\ arg = [t |-> "Timestamp", op |-> "Before"]

(***************************************************************************)
(* SpecNumber: a caller of parse_value on a Number field                   *)
(***************************************************************************)
NumberSigns == {"", "+", "-"}
NumberBodies ==
    {"", "0", "3", "42", "007", "17",
     "9223372036854775807", "9223372036854775808", "9223372036854775809",
     "18446744073709551615", "18446744073709551616",
     "99999999999999999999", "09223372036854775808"}
NumberTails ==
    {"", ".14", ".", "e5", "E-2", "e", "x", " ", ".5e+1", "_0", ".1.2", "e+"}
NumberWords ==
    {"abc", "inf", "-inf", "NaN", "infinity", "+Infinity", "nan", "in", "--5",
     "+-5", "0x10", "1,5", " 42", "infinit", "1e5e5", "e5", ".e5"}

NumberLiterals ==
    {sg \o b \o t : sg \in NumberSigns, b \in NumberBodies, t \in NumberTails}
        \cup NumberWords

InitNumber ==
    /\ pc = "call"
    /\ arg \in [value : NumberLiterals, field : {"priority"}]
    /\ ret = NoValue
    /\ PqIdle

CallParseNumber ==
    /\ pc = "call"
    /\ ret' = parse_number(arg.value, arg.field)
    /\ pc' = "done"
    /\ UNCHANGED <<arg, pairs, pos, current_group, query, result>>

NextNumber == CallParseNumber

SpecNumber == InitNumber /\ [][NextNumber]_vars

\* C7: a decimal integer literal within the i64 range gives Number::I64; an
\* integer literal above i64::MAX and at most u64::MAX gives Number::U64; a
\* literal that neither integer parse accepts and that is a float literal
\* gives Number::F64; anything else gives InvalidValue.
C7_NumberPriorityI64U64F64 ==
    pc = "done" =>
        LET s == arg.value
            signed == s # "" /\ Head(s) \in {"+", "-"}
            neg == s # "" /\ Head(s) = "-"
            body == IF signed THEN Tail(s) ELSE s
            mag == StripZeros(body)
            isInt == AllDigits(body)
            inI64 == isInt /\ MagLeq(mag, IF neg THEN I64MinMag ELSE I64Max)
            aboveI64 == isInt /\ ~neg /\ ~MagLeq(mag, I64Max)
                              /\ MagLeq(mag, U64Max)
        IN  CASE inI64 ->
                    ret = Ok([type |-> "Number", variant |-> "I64",
                              n |-> IntVal(neg, mag)])
              [] aboveI64 ->
                    ret = Ok([type |-> "Number", variant |-> "U64",
                              n |-> IntVal(FALSE, mag)])
              [] ~inI64 /\ ~aboveI64 /\ ParseF64(s) # None ->
                    ret.tag = "Ok" /\ ret.v.variant = "F64"
              [] OTHER ->
                    /\ ret.tag = "Err"
                    /\ ret.e.kind = "InvalidValue"
                    /\ ret.e.value = s

C7_Witness ==
    /\ pc = "done"
    /\ arg.value = "9223372036854775808"
    /\ ret.tag = "Ok"
    /\ ret.v.variant = "U64"

(***************************************************************************)
(* SpecTime: callers of the calendar functions and of parse_value on a     *)
(* Timestamp field                                                         *)
(***************************************************************************)
YearSpan == 30

CalendarYears ==
    ((1970 - YearSpan)..(1970 + YearSpan)) \cup {1600, 1900, 2023, 2024, 2100, 2400}

YmdArgs ==
    [call : {"days_from_ymd"}, y : CalendarYears, m : 0..14, d : 0..33]
YearArgs == [call : {"year"}, y : CalendarYears]

\* the literals a caller passes: dates, datetimes, bare integers, others
LitYears == {"2024", "2023", "1970", "1969", "2000", "1900", "+2024", "20x4", ""}
LitMonths == {"01", "2", "02", "04", "12", "13", "00", ""}
LitDays == {"01", "15", "28", "29", "30", "31", "32", "00", "1"}
LitHours == {"00", "10", "23", "24"}
LitMinutes == {"00", "30", "59", "60"}
LitSeconds == {"00", "59", "60", "5"}
LitFractions == {"", ".5", ".123", ".", ".x"}
LitZones == {"", "Z", "ZZ"}

DateLits == [kind : {"date"}, y : LitYears, m : LitMonths, d : LitDays]
DatetimeLits ==
    [kind : {"datetime"},
     y : {"2024", "1969", "2023"}, m : {"01", "02", "13"}, d : {"15", "29", "30"},
     h : LitHours, mi : LitMinutes, s : LitSeconds,
     frac : LitFractions, z : LitZones]
OtherLits ==
    [kind : {"other"},
     text : {"2024", "1970", "1999", "0000", "+202", "-202", "9999",
             "1705312200000", "-1", "0", "+7", "86400000", "-86400001",
             "not-a-date", "", "T", "Z", "2024Z", "abcd", "20x4",
             "2024-01", "2024-01-15-", "2024-01-15Z",
             "2024-01-15T10:30", "2024-01-15T10:30:00:00",
             "2024-01-15 10:30:00", "2024-01-15t10:30:00",
             "2024-01-15T10:30:00z", "2024-01-15TT10:30:00",
             "2024-01-15T10:30:00+01:00"}]

LitText(lit) ==
    CASE lit.kind = "date" -> lit.y \o "-" \o lit.m \o "-" \o lit.d
      [] lit.kind = "datetime" ->
            lit.y \o "-" \o lit.m \o "-" \o lit.d \o "T" \o lit.h \o ":"
                \o lit.mi \o ":" \o lit.s \o lit.frac \o lit.z
      [] lit.kind = "other" -> lit.text

TimestampArgs ==
    {[call |-> "parse_value", value |-> LitText(lit), field |-> "created-at",
      field_type |-> "Timestamp", op |-> "Eq", lit |-> lit] :
        lit \in DateLits \cup DatetimeLits \cup OtherLits}

InitTime ==
    /\ pc = "call"
    /\ arg \in YmdArgs \cup YearArgs \cup TimestampArgs
    /\ ret = NoValue
    /\ PqIdle

CallDaysFromYmd ==
    /\ pc = "call"
    /\ arg.call = "days_from_ymd"
    /\ \E overflow_checks \in BOOLEAN :
        LET r == days_from_ymd(arg.y, arg.m, arg.d) IN
        ret' = [fn |-> "days_from_ymd",
                v |-> IF r # Underflow THEN r
                      ELSE IF overflow_checks THEN Panic ELSE None]
    /\ pc' = "done"
    /\ UNCHANGED <<arg, pairs, pos, current_group, query, result>>

CallDaysFromYear ==
    /\ pc = "call"
    /\ arg.call = "year"
    /\ ret' = [fn |-> "days_from_year", v |-> days_from_year(arg.y)]
    /\ pc' = "done"
    /\ UNCHANGED <<arg, pairs, pos, current_group, query, result>>

CallIsLeapYear ==
    /\ pc = "call"
    /\ arg.call = "year"
    /\ ret' = [fn |-> "is_leap_year", v |-> is_leap_year(arg.y)]
    /\ pc' = "done"
    /\ UNCHANGED <<arg, pairs, pos, current_group, query, result>>

CallParseTimestamp ==
    /\ pc = "call"
    /\ arg.call = "parse_value"
    /\ ret' = [fn |-> "parse_value", v |-> parse_timestamp(arg.value, arg.field)]
    /\ pc' = "done"
    /\ UNCHANGED <<arg, pairs, pos, current_group, query, result>>

NextTime ==
    \/ CallDaysFromYmd
    \/ CallDaysFromYear
    \/ CallIsLeapYear
    \/ CallParseTimestamp

SpecTime == InitTime /\ [][NextTime]_vars

\* the calendar of the specification
LeapYear(y) == (y % 4 = 0 /\ y % 100 # 0) \/ y % 400 = 0
MonthLengths == <<31, 28, 31, 30, 31, 30, 31, 31, 30, 31, 30, 31>>
DaysInMonth(y, m) == IF m = 2 /\ LeapYear(y) THEN 29 ELSE MonthLengths[m]
ValidDate(y, m, d) == m \in 1..12 /\ d \in 1..DaysInMonth(y, m)
Numeral(str) == AllDigits(str)
NumeralValue(str) == NatOf(StripZeros(str))

Returned(fn) == pc = "done" /\ ret.fn = fn

\* C2: a bare 4-digit year literal on a Timestamp field parses to January
\* 1st, midnight UTC of that year: days_from_year(year) * 86,400,000 ms.
C2_YearLiteralIsJanuaryFirst ==
    (/\ Returned("parse_value")
     /\ Len(arg.value) = 4
     /\ Numeral(arg.value)) =>
        ret.v = Ok(Timestamp(days_from_year(NumeralValue(arg.value)), 0))

\* C8: a date-only literal Y-M-D of a valid calendar date parses to
\* days_from_ymd(Y,M,D) days and no milliseconds more; a datetime literal
\* with h < 24, m < 60, s < 60 parses to the same days plus
\* (h*3600 + m*60 + s) * 1000 ms, whatever its fraction digits are and
\* whether or not it ends in Z.
C8_DateAndDatetimeValue ==
    Returned("parse_value") =>
        LET lit == arg.lit IN
        /\ (/\ lit.kind = "date"
            /\ Numeral(lit.y) /\ Numeral(lit.m) /\ Numeral(lit.d)
            /\ ValidDate(NumeralValue(lit.y), NumeralValue(lit.m),
                         NumeralValue(lit.d)))
            => ret.v = Ok(Timestamp(
                    days_from_ymd(NumeralValue(lit.y), NumeralValue(lit.m),
                                  NumeralValue(lit.d)).v, 0))
        /\ (/\ lit.kind = "datetime"
            /\ Numeral(lit.y) /\ Numeral(lit.m) /\ Numeral(lit.d)
            /\ ValidDate(NumeralValue(lit.y), NumeralValue(lit.m),
                         NumeralValue(lit.d))
            /\ Numeral(lit.h) /\ Numeral(lit.mi) /\ Numeral(lit.s)
            /\ NumeralValue(lit.h) < 24
            /\ NumeralValue(lit.mi) < 60
            /\ NumeralValue(lit.s) < 60
            /\ (lit.frac = "" \/ (Head(lit.frac) = "." /\ Numeral(Tail(lit.frac))))
            /\ lit.z \in {"", "Z"})
            => ret.v = Ok(Timestamp(
                    days_from_ymd(NumeralValue(lit.y), NumeralValue(lit.m),
                                  NumeralValue(lit.d)).v,
                    (NumeralValue(lit.h) * 3600 + NumeralValue(lit.mi) * 60
                        + NumeralValue(lit.s)) * 1000))

C8_Witness ==
    /\ Returned("parse_value")
    /\ arg.value = "2024-02-29T23:59:59.123Z"
    /\ ret.v = Ok(Timestamp(19782, 86399000))

\* C9: days_from_ymd returns None when the month is above 12 or the day is
\* above the length of the month (February: 29 in a leap year, else 28),
\* and parse_value on a Timestamp field returns InvalidValue for a date or
\* datetime literal naming such a date.
C9_InvalidDatesRejected ==
    /\ Returned("days_from_ymd") =>
        ((arg.m > 12 \/ (arg.m \in 1..12 /\ arg.d > DaysInMonth(arg.y, arg.m)))
            => ret.v = None)
    /\ Returned("parse_value") =>
        ((/\ arg.lit.kind \in {"date", "datetime"}
          /\ Numeral(arg.lit.y) /\ Numeral(arg.lit.m) /\ Numeral(arg.lit.d)
          /\ LET m == NumeralValue(arg.lit.m)
                 d == NumeralValue(arg.lit.d)
             IN  m > 12 \/ (m \in 1..12
                            /\ d > DaysInMonth(NumeralValue(arg.lit.y), m)))
            => /\ ret.v.tag = "Err"
               /\ ret.v.e.kind = "InvalidValue"
               /\ ret.v.e.value = arg.value)

C9_Witness ==
    /\ Returned("parse_value")
    /\ arg.value = "2023-02-29"
    /\ ret.v.tag = "Err"
    /\ ret.v.e.kind = "InvalidValue"

\* C10: days_from_year(1970) = 0 and days_from_ymd(1970,1,1) = 0; for a
\* later year the count is the sum of the lengths of the years 1970..y-1,
\* for an earlier year the negated sum of the lengths of y..1969, a year
\* being 366 days long iff it is a leap year, else 365; and is_leap_year is
\* the Gregorian rule.
LengthOfYears(a, b) ==
    365 * Cardinality(a..b) + Cardinality({k \in a..b : LeapYear(k)})

C10_DayCountAnchoredAtEpoch ==
    /\ Returned("days_from_year") =>
        /\ arg.y = 1970 => ret.v = 0
        /\ arg.y > 1970 => ret.v = LengthOfYears(1970, arg.y - 1)
        /\ arg.y < 1970 => ret.v = 0 - LengthOfYears(arg.y, 1969)
    /\ Returned("is_leap_year") =>
        /\ ret.v <=> LeapYear(arg.y)
        /\ arg.y = 1900 => ret.v = FALSE
        /\ arg.y \in {2000, 2024} => ret.v = TRUE
    /\ (Returned("days_from_ymd") /\ arg.y = 1970 /\ arg.m = 1 /\ arg.d = 1)
        => ret.v = Some(0)

C10_Witness ==
    /\ Returned("days_from_year")
    /\ arg.y = 1968
    /\ ret.v = 0 - 731

(***************************************************************************)
(* Spec: parse_query, one iteration of its for loop per step               *)
(***************************************************************************)
MaxPairs == 3

Pair(key, value) == [key |-> key, value |-> value]

PairChoices ==
    {Pair("AND", ""), Pair("or", "x"), Pair("Not", ""),
     Pair("order", "priority-desc"), Pair("limit", "10"), Pair("limit", "-1"),
     Pair("name-contains", "urgent"), Pair("priority-gte", "3"),
     Pair("done", ""), Pair("status-in", "pending, 7"),
     Pair("bogus-eq", "1"), Pair("bogus-gt", "abc"),
     Pair("name-gt", "test"), Pair("priority-contains", "abc"),
     Pair("created-at-before", "2024-02-30"), Pair("name-re", "(unclosed")}

Init ==
    /\ pc = "loop"
    /\ arg = NoValue
    /\ ret = NoValue
    /\ pairs \in SeqsUpTo(PairChoices, MaxPairs)
    /\ pos = 0
    /\ current_group = "And"
    /\ query = QueryNew
    /\ result = NoValue

InLoop == pc = "loop" /\ pos < Len(pairs)
key == pairs[pos + 1].key
value == pairs[pos + 1].value

\* "AND" | "OR" | "NOT": set the register and continue
StepGroupMarker ==
    /\ InLoop
    /\ IsGroupMarker(key)
    /\ current_group' = MarkerGroup(key)
    /\ pos' = pos + 1
    /\ UNCHANGED <<pc, arg, ret, pairs, query, result>>

\* the loop body from the first error on: return Err(e)
Abort(e) ==
    /\ result' = Err(e)
    /\ pc' = "done"
    /\ UNCHANGED <<arg, ret, pairs, pos, current_group, query>>

\* the loop body ran to its end: next pair
Continue(q) ==
    /\ query' = q
    /\ pos' = pos + 1
    /\ UNCHANGED <<pc, arg, ret, pairs, current_group, result>>

StepSpecialKey ==
    /\ InLoop
    /\ IsSpecialKey(key)
    /\ LET out == SpecialPair(query, key, value) IN
       IF out.tag = "Err" THEN Abort(out.e) ELSE Continue(out.v)

\* a mutant of StepFieldClause: a failing pair is skipped, not returned
StepFieldClause_skips_failures ==
    /\ InLoop
    /\ IsFieldKey(key)
    /\ LET out == FieldPair(query, current_group, key, value) IN
       IF out.tag = "Err" THEN Continue(query) ELSE Continue(out.v)

\* a mutant of StepFieldClause: every clause is added through and()
StepFieldClause_always_and ==
    /\ InLoop
    /\ IsFieldKey(key)
    /\ LET out == FieldPair(query, "And", key, value) IN
       IF out.tag = "Err" THEN Abort(out.e) ELSE Continue(out.v)

StepFieldClause ==
    /\ InLoop
    /\ IsFieldKey(key)
    /\ LET out == FieldPair(query, current_group, key, value) IN
       IF out.tag = "Err" THEN Abort(out.e) ELSE Continue(out.v)

\* after the loop: Ok(query.build())
Return ==
    /\ pc = "loop"
    /\ pos = Len(pairs)
    /\ result' = Ok(QueryBuild(query))
    /\ pc' = "done"
    /\ UNCHANGED <<arg, ret, pairs, pos, current_group, query>>

Next ==
    \/ StepGroupMarker
    \/ StepSpecialKey
    \/ StepFieldClause
    \/ Return

Spec == Init /\ [][Next]_vars

\* the pairs by kind, as the specification words them
MarkerOf(k) ==
    LET u == ToUpper(k) IN
    CASE u = "AND" -> "And"
      [] u = "OR" -> "Or"
      [] u = "NOT" -> "Not"
      [] OTHER -> "none"
MarkerAt(i) == MarkerOf(pairs[i].key) # "none"
SpecialAt(i) ==
    /\ ~MarkerAt(i)
    /\ ToLower(pairs[i].key) \in
            {"order", "orderby", "order-by", "sort", "limit", "offset", "skip"}
FieldAt(i) == ~MarkerAt(i) /\ ~SpecialAt(i)

\* the group named by the last marker before pair i, And when there is none
GroupBefore(i) ==
    LET ms == {j \in 1..(i - 1) : MarkerAt(j)} IN
    IF ms = {} THEN "And"
    ELSE MarkerOf(pairs[CHOOSE j \in ms : \A k \in ms : k <= j].key)

\* the number of field pairs among the first i pairs
FieldPairsUpTo(i) == Cardinality({j \in 1..i : FieldAt(j)})

\* C4: the register starts as And and always holds the group of the last
\* marker processed; a marker adds no clause, whatever its value; the
\* clause of a field pair is added through the builder method of the
\* register's value when the pair is processed, which is the group of the
\* last marker before the pair.
C4_GroupRegisterGovernsLaterClauses ==
    /\ current_group = GroupBefore(pos + 1)
    /\ Len(query.clauses) = FieldPairsUpTo(pos)
    /\ \A i \in 1..pos :
        FieldAt(i) => query.clauses[FieldPairsUpTo(i)].group = GroupBefore(i)

C4_Witness ==
    /\ pc = "done"
    /\ pairs = <<Pair("or", "x"), Pair("Not", ""), Pair("name-contains", "urgent")>>
    /\ result.tag = "Ok"
    /\ Len(result.v.clauses) = 1
    /\ result.v.clauses[1].group = "Not"

\* the field part and the operator of a key, as the specification words them
KeyHasOperator(k) ==
    /\ LastDash(k) > 0
    /\ ToLower(SubSeq(k, LastDash(k) + 1, Len(k))) \in DOMAIN SpecOperatorTable
KeyField(k) == IF KeyHasOperator(k) THEN SubSeq(k, 1, LastDash(k) - 1) ELSE k
KeyOperator(k, t) ==
    IF KeyHasOperator(k)
    THEN SpecOperatorTable[ToLower(SubSeq(k, LastDash(k) + 1, Len(k)))]
    ELSE IF t = "Bool" THEN "Is" ELSE "Eq"

Failed == pc = "done" /\ result.tag = "Err"

\* C5: for a field pair the field part of the key is looked up first
\* (UnknownField with that field part and all the schema's field names),
\* then the operator is validated (InvalidOperator), and only then is the
\* value parsed (InvalidValue or InvalidRegex): a pair is passed without an
\* error only if its field is known and its operator valid for the type.
C5_FieldThenOperatorThenValue ==
    \A i \in 1..Len(pairs) :
        FieldAt(i) =>
            LET f == KeyField(pairs[i].key)
                t == field_type(f)
                opOk == KeyOperator(pairs[i].key, t.v) \in CompatibilityTable[t.v]
            IN  /\ i <= pos => (t # None /\ opOk)
                /\ (Failed /\ i = pos + 1) =>
                    IF t = None
                    THEN result.e = [kind |-> "UnknownField", field |-> f,
                                     available |-> <<"name", "priority",
                                         "created-at", "status", "done">>]
                    ELSE IF ~opOk
                    THEN /\ result.e.kind = "InvalidOperator"
                         /\ result.e.field = f
                         /\ result.e.field_type = t.v
                    ELSE result.e.kind \in {"InvalidValue", "InvalidRegex"}

C5_Witness ==
    /\ Failed
    /\ pairs = <<Pair("bogus-gt", "abc")>>
    /\ result.e.kind = "UnknownField"
    /\ result.e.field = "bogus"

\* what parse_query returns for the list of the one pair p
AloneResult(p) ==
    IF MarkerOf(p.key) # "none" THEN Ok(QueryNew)
    ELSE IF IsSpecialKey(p.key) THEN SpecialPair(QueryNew, p.key, p.value)
    ELSE FieldPair(QueryNew, "And", p.key, p.value)

FailingPairs == {i \in 1..Len(pairs) : AloneResult(pairs[i]).tag = "Err"}

\* C6: parse_query returns Ok(query) only when no pair fails; otherwise it
\* returns the error of the first failing pair and nothing else (no query),
\* having processed no pair after it.
C6_FailFastFirstError ==
    pc = "done" =>
        IF FailingPairs = {}
        THEN result.tag = "Ok" /\ pos = Len(pairs)
        ELSE LET first == CHOOSE i \in FailingPairs :
                              \A j \in FailingPairs : i <= j
             IN  /\ result = Err(AloneResult(pairs[first]).e)
                 /\ DOMAIN result = {"tag", "e"}
                 /\ pos = first - 1

C6_Witness ==
    /\ Failed
    /\ pairs = <<Pair("name-contains", "urgent"), Pair("bogus-eq", "1"),
                 Pair("limit", "-1")>>
    /\ result.e.kind = "UnknownField"

(***************************************************************************)
(* SpecWords: callers of parse_value on a Bool and on an Enum field, of    *)
(* parse_ordering and of parse_operator                                    *)
(***************************************************************************)
MaxParts == 3

\* a word in four letter cases
CaseVariants(w) ==
    {w, ToUpper(w), UpperChar(Head(w)) \o Tail(w), Head(w) \o ToUpper(Tail(w))}

BoolWords == {"true", "1", "yes", "on", "false", "0", "no", "off"}
BoolValues ==
    UNION {CaseVariants(w) : w \in BoolWords}
        \cup {"", "maybe", "2", "tru", "truee", " true", "true ", "y", "n",
              "t", "f", "10", "01", "-1", "+1", "oui", "TRUE!", "nope", "of",
              "o n", "yes,no"}

BoolArgs ==
    [call : {"parse_value"}, value : BoolValues, field : {"done"},
     field_type : {"Bool"}, op : {"Is", "Eq"}]

\* the parts of an Enum value: the text between two commas and the word it
\* holds between its leading and trailing blanks
EnumTokens ==
    {[text |-> t, word |-> t] :
        t \in {"pending", "Active", "done", "0", "+3", "4294967295",
               "4294967296", "bogus", ""}}
    \cup {[text |-> " active", word |-> "active"],
          [text |-> " done", word |-> "done"],
          [text |-> "1 ", word |-> "1"]}

EnumPartLists == UNION {[1..k -> EnumTokens] : k \in 1..MaxParts}

EnumArgs ==
    {[call |-> "parse_value",
      value |-> Join([i \in 1..Len(ps) |-> ps[i].text], ","),
      field |-> "status", field_type |-> "Enum", op |-> op, parts |-> ps] :
        ps \in EnumPartLists, op \in {"Eq", "Ne", "In"}}

OrderWords ==
    {"priority", "created", "at", "asc", "desc", "ASC", "Desc", "dEsC", "",
     "ascending"}

OrderingArgs ==
    {[call |-> "parse_ordering", value |-> Join(segs, "-")] :
        segs \in SeqsUpTo(OrderWords, MaxSegs)}

OperatorArgs ==
    [call : {"parse_operator"},
     value : UNION {CaseVariants(n) : n \in operator_names}
                \cup {"", "equals", "eq ", " eq", "=", "e", "equal", "not",
                      "like", "gte=", "starts-with", "ends_with", "matches",
                      "nin", "isnt", "i", "eqeq", "asc"}]

InitWords ==
    /\ pc = "call"
    /\ arg \in BoolArgs \cup EnumArgs \cup OrderingArgs \cup OperatorArgs
    /\ ret = NoValue
    /\ PqIdle

CallParseValue ==
    /\ pc = "call"
    /\ arg.call = "parse_value"
    /\ ret' = [fn |-> "parse_value",
               v |-> parse_value(arg.value, arg.field, arg.field_type, arg.op)]
    /\ pc' = "done"
    /\ UNCHANGED <<arg, pairs, pos, current_group, query, result>>

CallParseOrdering ==
    /\ pc = "call"
    /\ arg.call = "parse_ordering"
    /\ ret' = [fn |-> "parse_ordering", v |-> parse_ordering(arg.value)]
    /\ pc' = "done"
    /\ UNCHANGED <<arg, pairs, pos, current_group, query, result>>

CallParseOperator ==
    /\ pc = "call"
    /\ arg.call = "parse_operator"
    /\ ret' = [fn |-> "parse_operator", v |-> parse_operator(arg.value)]
    /\ pc' = "done"
    /\ UNCHANGED <<arg, pairs, pos, current_group, query, result>>

NextWords == CallParseValue \/ CallParseOrdering \/ CallParseOperator

SpecWords == InitWords /\ [][NextWords]_vars

\* s and w are the same word up to the case of their letters
SameLetters(s, w) ==
    /\ Len(s) = Len(w)
    /\ \A i \in 1..Len(s) :
        \/ CharAt(s, i) = CharAt(w, i)
        \/ \E k \in 1..26 :
            {CharAt(s, i), CharAt(w, i)}
                = {CharAt(UpperAlphabet, k), CharAt(LowerAlphabet, k)}

IsWordOf(s, words) == \E w \in words : SameLetters(s, w)

\* C11: parse_value on a Bool field gives Bool(true) for true, 1, yes, on in
\* any letter case, Bool(false) for false, 0, no, off in any letter case,
\* and InvalidValue for every other string, the empty one included.
C11_BoolLiteralTable ==
    (Returned("parse_value") /\ arg.field_type = "Bool") =>
        IF IsWordOf(arg.value, {"true", "1", "yes", "on"})
        THEN ret.v = Ok([type |-> "Bool", b |-> TRUE])
        ELSE IF IsWordOf(arg.value, {"false", "0", "no", "off"})
        THEN ret.v = Ok([type |-> "Bool", b |-> FALSE])
        ELSE /\ ret.v.tag = "Err"
             /\ ret.v.e.kind = "InvalidValue"
             /\ ret.v.e.field = arg.field
             /\ ret.v.e.value = arg.value
             /\ ret.v.e.expected = "Bool"

C11_Witness ==
    /\ Returned("parse_value")
    /\ arg.field_type = "Bool"
    /\ arg.value = "YES"
    /\ ret.v = Ok([type |-> "Bool", b |-> TRUE])

\* the discriminant a word stands for, as decimal digits: a u32 numeral
\* stands for its value, a variant name of the schema for its discriminant;
\* "" when the word resolves by neither route
Discriminant(word) ==
    LET body == IF word # "" /\ Head(word) = "+" THEN Tail(word) ELSE word
    IN  IF Numeral(body) /\ MagLeq(StripZeros(body), "4294967295")
        THEN StripZeros(body)
        ELSE IF SameLetters(word, "pending") THEN "0"
        ELSE IF SameLetters(word, "active") THEN "1"
        ELSE IF SameLetters(word, "done") THEN "2"
        ELSE ""

\* C12: on an Enum field, operator In gives the EnumSet of the discriminants
\* of the comma-separated parts, each trimmed of blanks, in the order of the
\* parts; any other operator resolves the whole value, untrimmed, into one
\* Enum; a token that resolves by neither route gives InvalidValue and never
\* a partial set.
C12_EnumValueResolution ==
    (Returned("parse_value") /\ arg.field_type = "Enum") =>
        LET ps == arg.parts
            disc(i) == Discriminant(ps[i].word)
            invalid == /\ ret.v.tag = "Err"
                       /\ ret.v.e.kind = "InvalidValue"
                       /\ ret.v.e.field = arg.field
                       /\ ret.v.e.expected = "Enum"
        IN  IF arg.op = "In"
            THEN IF \A i \in 1..Len(ps) : disc(i) # ""
                 THEN ret.v = Ok([type |-> "EnumSet",
                                  set |-> [i \in 1..Len(ps) |->
                                            [neg |-> FALSE, mag |-> disc(i)]]])
                 ELSE invalid
            ELSE IF Len(ps) = 1 /\ ps[1].text = ps[1].word /\ disc(1) # ""
                 THEN ret.v = Ok([type |-> "Enum",
                                  disc |-> [neg |-> FALSE, mag |-> disc(1)]])
                 ELSE invalid /\ ret.v.e.value = arg.value

C12_Witness ==
    /\ Returned("parse_value")
    /\ arg.value = "pending, active, done"
    /\ arg.op = "In"
    /\ ret.v = Ok([type |-> "EnumSet",
                   set |-> <<[neg |-> FALSE, mag |-> "0"],
                             [neg |-> FALSE, mag |-> "1"],
                             [neg |-> FALSE, mag |-> "2"]>>])

\* C13: when the text after the last '-' of the value (the whole value when
\* it has no '-') is asc or desc in any letter case, it gives the direction
\* and the field is the text before that '-'; otherwise the field is the
\* whole value and the direction Asc.  An empty field (the empty value, a
\* lone direction word) gives InvalidOrdering, every other value Ok with a
\* non-empty field.
C13_OrderingFieldAndDirection ==
    Returned("parse_ordering") =>
        LET v == arg.value
            d == LastDash(v)
            suffix == SubSeq(v, d + 1, Len(v))
            directed == IsWordOf(suffix, {"asc", "desc"})
            field == IF ~directed THEN v
                     ELSE IF d = 0 THEN "" ELSE SubSeq(v, 1, d - 1)
            dir == IF SameLetters(suffix, "desc") THEN "Desc" ELSE "Asc"
        IN  /\ IF field = ""
               THEN /\ ret.v.tag = "Err"
                    /\ ret.v.e.kind = "InvalidOrdering"
                    /\ ret.v.e.value = v
               ELSE ret.v = Ok([field |-> field, dir |-> dir])
            /\ (v = "" \/ IsWordOf(v, {"asc", "desc"})) => ret.v.tag = "Err"
            /\ ret.v.tag = "Ok" => ret.v.v.field # ""

C13_Witness ==
    /\ Returned("parse_ordering")
    /\ arg.value = "created-at-Desc"
    /\ ret.v = Ok([field |-> "created-at", dir |-> "Desc"])

\* C16: parse_operator maps each name of the operator table, in any letter
\* case, to the Op of its alias group, and every other string, the empty
\* string and "equals" included, to None.
C16_OperatorNamesAndAliases ==
    Returned("parse_operator") =>
        LET names == {n \in DOMAIN SpecOperatorTable : SameLetters(arg.value, n)}
        IN  /\ IF names # {}
               THEN \A n \in names : ret.v = Some(SpecOperatorTable[n])
               ELSE ret.v = None
            /\ arg.value \in {"", "equals"} => ret.v = None

C16_Witness ==
    /\ Returned("parse_operator")
    /\ arg.value = "MATCH"
    /\ ret.v = Some("Regex")

(***************************************************************************)
(* SpecSpecial: parse_query on pair lists made mostly of special keys      *)
(***************************************************************************)
SpecialChoices ==
    {Pair("order", "bogus-desc"), Pair("SORT", "name"), Pair("orderby", ""),
     Pair("Order-By", "desc"), Pair("limit", "10"), Pair("LIMIT", "abc"),
     Pair("offset", "5"), Pair("Skip", "-1"), Pair("OR", ""),
     Pair("name-contains", "x"), Pair("bogus", "1")}

InitSpecial ==
    /\ pc = "loop"
    /\ arg = NoValue
    /\ ret = NoValue
    /\ pairs \in SeqsUpTo(SpecialChoices, MaxPairs)
    /\ pos = 0
    /\ current_group = "And"
    /\ query = QueryNew
    /\ result = NoValue

SpecSpecial == InitSpecial /\ [][Next]_vars

\* field and direction of an ordering value, as the specification words them
OrderingSuffix(v) == SubSeq(v, LastDash(v) + 1, Len(v))
OrderingField(v) ==
    IF ~IsWordOf(OrderingSuffix(v), {"asc", "desc"}) THEN v
    ELSE IF LastDash(v) = 0 THEN "" ELSE SubSeq(v, 1, LastDash(v) - 1)
OrderingDir(v) == IF SameLetters(OrderingSuffix(v), "desc") THEN "Desc" ELSE "Asc"

\* C14: the step that processes a pair whose lower-cased key is order,
\* orderby, order-by, sort, limit, offset or skip leaves the register and
\* the clause list as they are and ends, if it fails, in InvalidOrdering or
\* InvalidLimit only; an ordering is appended with the field its value
\* names whenever that field is not empty, whether or not the schema has
\* such a field.
C14_SpecialKeysBypassSchema ==
    [][(InLoop /\ SpecialAt(pos + 1)) =>
        LET k == ToLower(pairs[pos + 1].key)
            v == pairs[pos + 1].value
        IN  /\ current_group' = current_group
            /\ query'.clauses = query.clauses
            /\ pc' = "done" =>
                /\ result'.tag = "Err"
                /\ result'.e.kind \in {"InvalidOrdering", "InvalidLimit"}
            /\ (k \in {"order", "orderby", "order-by", "sort"}
                    /\ OrderingField(v) # "") =>
                /\ pc' = "loop"
                /\ pos' = pos + 1
                /\ query'.order_by =
                        Append(query.order_by, [field |-> OrderingField(v),
                                                dir |-> OrderingDir(v)])
    ]_vars

C14_Witness ==
    /\ pc = "done"
    /\ pairs = <<Pair("OR", ""), Pair("order", "bogus-desc"),
                 Pair("name-contains", "x")>>
    /\ result.tag = "Ok"
    /\ result.v.order_by = <<[field |-> "bogus", dir |-> "Desc"]>>
    /\ Len(result.v.clauses) = 1
    /\ result.v.clauses[1].group = "Or"

(***************************************************************************)
(* SpecClause: parse_query on pair lists made mostly of field pairs of     *)
(* every field type                                                        *)
(***************************************************************************)
ClauseChoices ==
    {Pair("done", ""), Pair("done", "true"), Pair("done-eq", ""),
     Pair("done-gt", ""), Pair("name", ""), Pair("priority", ""),
     Pair("name-re", "^a"), Pair("priority", "3"), Pair("created-at", "0"),
     Pair("status", "active"), Pair("status-in", "0,done"),
     Pair("name-equal", "x"), Pair("name-gt", "test"),
     Pair("NOT", ""), Pair("limit", "1")}

InitClause ==
    /\ pc = "loop"
    /\ arg = NoValue
    /\ ret = NoValue
    /\ pairs \in SeqsUpTo(ClauseChoices, MaxPairs)
    /\ pos = 0
    /\ current_group = "And"
    /\ query = QueryNew
    /\ result = NoValue

SpecClause == InitClause /\ [][Next]_vars

\* the clause the i-th pair, a field pair already processed, has added
ClauseOf(i) == query.clauses[FieldPairsUpTo(i)]

\* C15: a field pair with the empty value on a Bool field adds the clause
\* field == true under the key's operator, the same clause the value "true"
\* adds, so that [(f, "")] and [(f, "true")] give the same query; on a field
\* of another type the empty value is parsed as it is; and an operator that
\* is invalid for the Bool field is reported as InvalidOperator, not as a
\* value error.
C15_BareFlagCoercedToTrue ==
    /\ \A i \in 1..Len(pairs) :
        (FieldAt(i) /\ pairs[i].value = "") =>
            LET k == pairs[i].key
                f == KeyField(k)
                t == field_type(f).v
            IN  /\ (i <= pos /\ t = "Bool") =>
                    /\ ClauseOf(i) =
                          [group |-> GroupBefore(i), field |-> f,
                           op |-> KeyOperator(k, t),
                           value |-> [type |-> "Bool", b |-> TRUE]]
                    /\ ClauseOf(i) =
                          FieldPair(QueryNew, GroupBefore(i), k, "true").v.clauses[1]
                /\ (i <= pos /\ t = "String") =>
                    ClauseOf(i).value = [type |-> "String", s |-> ""]
                /\ (Failed /\ i = pos + 1 /\ field_type(f) # None) =>
                    IF t = "Bool" THEN result.e.kind = "InvalidOperator"
                    ELSE result.e.kind = "InvalidOperator"
                            \/ (result.e.kind = "InvalidValue"
                                    /\ result.e.value = "")
    /\ (pc = "done" /\ Len(pairs) = 1 /\ FieldAt(1)
            /\ pairs[1].value = "" /\ field_type(KeyField(pairs[1].key)) = Some("Bool"))
        => result = AloneResult(Pair(pairs[1].key, "true"))

C15_Witness ==
    /\ pc = "done"
    /\ pairs = <<Pair("done", "")>>
    /\ result = Ok([clauses |-> <<[group |-> "And", field |-> "done", op |-> "Is",
                                  value |-> [type |-> "Bool", b |-> TRUE]]>>,
                    order_by |-> <<>>, limit |-> None, offset |-> None])

\* the ClauseValue variants the specification allows for a field type under
\* an operator
ValueVariants(t, op) ==
    CASE t = "String" -> IF op = "Regex" THEN {"Regex"} ELSE {"String"}
      [] t = "Number" -> {"Number"}
      [] t = "Timestamp" -> {"Timestamp"}
      [] t = "Enum" -> IF op = "In" THEN {"EnumSet"} ELSE {"Enum"}
      [] t = "Bool" -> {"Bool"}

ClauseInvariant(c) ==
    /\ field_type(c.field) # None
    /\ is_valid_operator(field_type(c.field).v, c.op)
    /\ c.value.type \in ValueVariants(field_type(c.field).v, c.op)

\* C17: every clause of the query under construction, and so of the Query
\* parse_query returns, has an operator that is valid for the type the
\* schema gives its field and a ClauseValue of the variant that belongs to
\* that type (Regex under the operator Regex, EnumSet under In).
C17_ClauseInvariant ==
    /\ \A i \in 1..Len(query.clauses) : ClauseInvariant(query.clauses[i])
    /\ (pc = "done" /\ result.tag = "Ok") =>
        /\ Len(result.v.clauses) = FieldPairsUpTo(Len(pairs))
        /\ \A i \in 1..Len(result.v.clauses) : ClauseInvariant(result.v.clauses[i])

C17_Witness ==
    /\ pc = "done"
    /\ pairs = <<Pair("name-re", "^a"), Pair("status-in", "0,done"),
                 Pair("created-at", "0")>>
    /\ result.tag = "Ok"
    /\ result.v.clauses[1].value.type = "Regex"
    /\ result.v.clauses[2].value.type = "EnumSet"
    /\ result.v.clauses[3].value.type = "Timestamp"

ErrorKinds ==
    {"UnknownField", "InvalidOperator", "InvalidValue", "InvalidRegex",
     "InvalidOrdering", "InvalidLimit"}

\* the key has several segments and its last one is no operator name
UnrecognizedSuffix(k) ==
    /\ LastDash(k) > 0
    /\ ~IsWordOf(SubSeq(k, LastDash(k) + 1, Len(k)), DOMAIN SpecOperatorTable)

\* C18: parse_query never returns UnknownOperator (its errors are of the six
\* other kinds), and a key whose last segment is not a recognized operator
\* is taken whole as the field name: the clause it adds, or the
\* UnknownField it fails with, names the whole key.
C18_UnknownSuffixAbsorbed ==
    /\ Failed => (result.e.kind \in ErrorKinds /\ result.e.kind # "UnknownOperator")
    /\ \A i \in 1..Len(pairs) :
        (FieldAt(i) /\ UnrecognizedSuffix(pairs[i].key)) =>
            /\ i <= pos => ClauseOf(i).field = pairs[i].key
            /\ (Failed /\ i = pos + 1) =>
                (result.e.kind = "UnknownField" => result.e.field = pairs[i].key)
            /\ (Failed /\ i = pos + 1 /\ field_type(pairs[i].key) = None) =>
                result.e = [kind |-> "UnknownField", field |-> pairs[i].key,
                            available |-> field_names]

C18_Witness ==
    /\ Failed
    /\ pairs = <<Pair("created-at", "0"), Pair("name-equal", "x")>>
    /\ query.clauses[1].field = "created-at"
    /\ result.e.kind = "UnknownField"
    /\ result.e.field = "name-equal"

(***************************************************************************)
(* The evaluator: a Query applied to a sequence of records through the     *)
(* accessor field_value.  A record is a function from field names to       *)
(* Values.                                                                 *)
(***************************************************************************)
ValueNone == [type |-> "None"]
ValueNumber(n) == [type |-> "Number", n |-> n]
ValueBool(b) == [type |-> "Bool", b |-> b]
ValueString(s) == [type |-> "String", s |-> s]
ValueTimestamp(days, ms) == [type |-> "Timestamp", days |-> days, ms |-> ms]
ValueEnum(disc) == [type |-> "Enum", disc |-> disc]

\* the Seekable accessor
field_value(record, field) ==
    IF field \in DOMAIN record THEN record[field] ELSE ValueNone

IsPrefix(p, s) == Len(p) <= Len(s) /\ SubSeq(s, 1, Len(p)) = p
IsSuffix(p, s) == Len(p) <= Len(s) /\ SubSeq(s, Len(s) - Len(p) + 1, Len(s)) = p
IsSubstring(p, s) ==
    \E i \in 0..(Len(s) - Len(p)) : SubSeq(s, i + 1, i + Len(p)) = p

\* Regex::is_match, for the patterns made of literal text with an optional
\* ^ in front and an optional $ behind
RegexIsMatch(pattern, s) ==
    LET from_start == pattern # "" /\ Head(pattern) = "^"
        rest == IF from_start THEN Tail(pattern) ELSE pattern
        to_end == rest # "" /\ SubSeq(rest, Len(rest), Len(rest)) = "$"
        text == IF to_end THEN SubSeq(rest, 1, Len(rest) - 1) ELSE rest
    IN  CASE from_start /\ to_end -> s = text
          [] from_start -> IsPrefix(text, s)
          [] to_end -> IsSuffix(text, s)
          [] OTHER -> IsSubstring(text, s)

\* the order of two Timestamps: -1, 0 or 1
TimestampCompare(a, b) ==
    IF a.days < b.days \/ (a.days = b.days /\ a.ms < b.ms) THEN 0 - 1
    ELSE IF a.days = b.days /\ a.ms = b.ms THEN 0 ELSE 1

\* a mutant of LeafMatches: Ne is the negation of Eq, so a Value of another
\* type than the ClauseValue is unequal to it
LeafMatches_ne_negates_eq(c, v) ==
    CASE c.value.type = "Number" /\ v.type = "Number"
                /\ c.value.variant \in {"I64", "U64"} ->
            LET n == IntOf(c.value.n) IN
            CASE c.op = "Eq" -> v.n = n
              [] c.op = "Ne" -> v.n # n
              [] c.op = "Gt" -> v.n > n
              [] c.op = "Gte" -> v.n >= n
              [] c.op = "Lt" -> v.n < n
              [] c.op = "Lte" -> v.n <= n
              [] OTHER -> FALSE
      [] c.value.type = "Bool" /\ v.type = "Bool" ->
            CASE c.op \in {"Eq", "Is"} -> v.b = c.value.b
              [] OTHER -> FALSE
      [] c.value.type = "String" /\ v.type = "String" ->
            CASE c.op = "Eq" -> v.s = c.value.s
              [] c.op = "Ne" -> v.s # c.value.s
              [] c.op = "StartsWith" -> IsPrefix(c.value.s, v.s)
              [] c.op = "EndsWith" -> IsSuffix(c.value.s, v.s)
              [] c.op = "Contains" -> IsSubstring(c.value.s, v.s)
              [] OTHER -> FALSE
      [] c.value.type = "Regex" /\ v.type = "String" ->
            c.op = "Regex" /\ RegexIsMatch(c.value.pattern, v.s)
      [] c.value.type = "Timestamp" /\ v.type = "Timestamp" ->
            LET o == TimestampCompare(v, c.value) IN
            CASE c.op = "Eq" -> o = 0
              [] c.op = "Ne" -> o # 0
              [] c.op \in {"Gt", "After"} -> o > 0
              [] c.op = "Gte" -> o >= 0
              [] c.op \in {"Lt", "Before"} -> o < 0
              [] c.op = "Lte" -> o <= 0
              [] OTHER -> FALSE
      [] c.value.type = "Enum" /\ v.type = "Enum" ->
            CASE c.op = "Eq" -> v.disc = IntOf(c.value.disc)
              [] c.op = "Ne" -> v.disc # IntOf(c.value.disc)
              [] OTHER -> FALSE
      [] c.value.type = "EnumSet" /\ v.type = "Enum" ->
            /\ c.op = "In"
            /\ \E i \in DOMAIN c.value.set : IntOf(c.value.set[i]) = v.disc
      [] OTHER -> c.op = "Ne"

\* a Leaf: the runtime Value against the ClauseValue under the operator; a
\* Value of another type than the ClauseValue is a non-match
LeafMatches(c, v) ==
    CASE c.value.type = "Number" /\ v.type = "Number"
                /\ c.value.variant \in {"I64", "U64"} ->
            LET n == IntOf(c.value.n) IN
            CASE c.op = "Eq" -> v.n = n
              [] c.op = "Ne" -> v.n # n
              [] c.op = "Gt" -> v.n > n
              [] c.op = "Gte" -> v.n >= n
              [] c.op = "Lt" -> v.n < n
              [] c.op = "Lte" -> v.n <= n
              [] OTHER -> FALSE
      [] c.value.type = "Bool" /\ v.type = "Bool" ->
            CASE c.op \in {"Eq", "Is"} -> v.b = c.value.b
              [] OTHER -> FALSE
      [] c.value.type = "String" /\ v.type = "String" ->
            CASE c.op = "Eq" -> v.s = c.value.s
              [] c.op = "Ne" -> v.s # c.value.s
              [] c.op = "StartsWith" -> IsPrefix(c.value.s, v.s)
              [] c.op = "EndsWith" -> IsSuffix(c.value.s, v.s)
              [] c.op = "Contains" -> IsSubstring(c.value.s, v.s)
              [] OTHER -> FALSE
      [] c.value.type = "Regex" /\ v.type = "String" ->
            c.op = "Regex" /\ RegexIsMatch(c.value.pattern, v.s)
      [] c.value.type = "Timestamp" /\ v.type = "Timestamp" ->
            LET o == TimestampCompare(v, c.value) IN
            CASE c.op = "Eq" -> o = 0
              [] c.op = "Ne" -> o # 0
              [] c.op \in {"Gt", "After"} -> o > 0
              [] c.op = "Gte" -> o >= 0
              [] c.op \in {"Lt", "Before"} -> o < 0
              [] c.op = "Lte" -> o <= 0
              [] OTHER -> FALSE
      [] c.value.type = "Enum" /\ v.type = "Enum" ->
            CASE c.op = "Eq" -> v.disc = IntOf(c.value.disc)
              [] c.op = "Ne" -> v.disc # IntOf(c.value.disc)
              [] OTHER -> FALSE
      [] c.value.type = "EnumSet" /\ v.type = "Enum" ->
            /\ c.op = "In"
            /\ \E i \in DOMAIN c.value.set : IntOf(c.value.set[i]) = v.disc
      [] OTHER -> FALSE

\* the clause tree over the first i leaves: the first leaf starts the tree,
\* a later leaf is joined to it by the group it was added under
RECURSIVE TreeMatches(_, _, _)
TreeMatches(clauses, i, record) ==
    IF i = 0 THEN TRUE
    ELSE LET c == clauses[i]
             leaf == LeafMatches(c, field_value(record, c.field))
         IN  IF i = 1 THEN (IF c.group = "Not" THEN ~leaf ELSE leaf)
             ELSE CASE c.group = "And" -> TreeMatches(clauses, i - 1, record) /\ leaf
                    [] c.group = "Or" -> TreeMatches(clauses, i - 1, record) \/ leaf
                    [] c.group = "Not" -> TreeMatches(clauses, i - 1, record) /\ ~leaf

Matches(q, record) == TreeMatches(q.clauses, Len(q.clauses), record)

\* the records for which the clause tree is true, in input order
RECURSIVE Survivors(_, _)
Survivors(q, records) ==
    IF records = <<>> THEN <<>>
    ELSE IF Matches(q, Head(records))
         THEN <<Head(records)>> \o Survivors(q, Tail(records))
         ELSE Survivors(q, Tail(records))

\* the order of two Values of one type: -1, 0 or 1
ValueCompare(a, b) ==
    CASE a.type = "Number" /\ b.type = "Number" ->
            IF a.n < b.n THEN 0 - 1 ELSE IF a.n > b.n THEN 1 ELSE 0
      [] a.type = "Bool" /\ b.type = "Bool" ->
            IF a.b = b.b THEN 0 ELSE IF b.b THEN 0 - 1 ELSE 1
      [] OTHER -> 0

\* the order of two records under the OrderBy list from entry i on
RECURSIVE RecordCompare(_, _, _, _)
RecordCompare(order_by, i, a, b) ==
    IF i > Len(order_by) THEN 0
    ELSE LET o == order_by[i]
             c == ValueCompare(field_value(a, o.field), field_value(b, o.field))
             d == IF o.dir = "Desc" THEN 0 - c ELSE c
         IN  IF d # 0 THEN d ELSE RecordCompare(order_by, i + 1, a, b)

\* stable sort: a record goes behind every record that does not come after it
RECURSIVE InsertSorted(_, _, _)
InsertSorted(order_by, sorted, record) ==
    IF sorted = <<>> THEN <<record>>
    ELSE IF RecordCompare(order_by, 1, Head(sorted), record) <= 0
         THEN <<Head(sorted)>> \o InsertSorted(order_by, Tail(sorted), record)
         ELSE <<record>> \o sorted

RECURSIVE SortedBy(_, _, _)
SortedBy(order_by, records, n) ==
    IF n = 0 THEN <<>>
    ELSE InsertSorted(order_by, SortedBy(order_by, records, n - 1), records[n])

OptionalCount(o, default) == IF o = None THEN default ELSE NatOf(o.v.mag)

\* a mutant of Paginate: limit is taken first, offset skipped afterwards
Paginate_limit_first(q, records) ==
    LET limit == OptionalCount(q.limit, Len(records))
        taken == SubSeq(records, 1, IF limit < Len(records) THEN limit
                                    ELSE Len(records))
        offset == OptionalCount(q.offset, 0)
    IN  SubSeq(taken, offset + 1, Len(taken))

\* skip offset records, then take at most limit records
Paginate(q, records) ==
    LET offset == OptionalCount(q.offset, 0)
        rest == SubSeq(records, offset + 1, Len(records))
        limit == OptionalCount(q.limit, Len(rest))
    IN  SubSeq(rest, 1, IF limit < Len(rest) THEN limit ELSE Len(rest))

QueryFilter(q, records) ==
    LET survivors == Survivors(q, records)
    IN  Paginate(q, SortedBy(q.order_by, survivors, Len(survivors)))

\* a mutant of QueryCount: the paginated result is counted
QueryCount_of_page(q, records) == Len(QueryFilter(q, records))

QueryCount(q, records) == Len(Survivors(q, records))

(***************************************************************************)
(* SpecEval: a caller that evaluates a built Query on a record sequence    *)
(***************************************************************************)
MaxRecords == 3

Record(name, priority, done) ==
    [name |-> ValueString(name), priority |-> ValueNumber(priority),
     done |-> ValueBool(done)]

RecordPool ==
    {Record("urgent a", 1, FALSE), Record("urgent b", 1, TRUE),
     Record("calm", 2, FALSE), Record("urgent c", 0, TRUE)}

EvalClauseLists ==
    {<<>>,
     <<Leaf("And", "name", "Contains", [type |-> "String", s |-> "urgent"])>>,
     <<Leaf("And", "priority", "Gte", NumberI64(IntVal(FALSE, "1"))),
       Leaf("Not", "done", "Is", [type |-> "Bool", b |-> TRUE])>>,
     <<Leaf("And", "priority", "Eq", NumberI64(IntVal(FALSE, "2"))),
       Leaf("Or", "done", "Is", [type |-> "Bool", b |-> TRUE])>>}

EvalOrderings ==
    {<<>>,
     <<[field |-> "priority", dir |-> "Asc"]>>,
     <<[field |-> "priority", dir |-> "Desc"]>>,
     <<[field |-> "done", dir |-> "Asc"], [field |-> "priority", dir |-> "Desc"]>>,
     <<[field |-> "priority", dir |-> "Asc"], [field |-> "done", dir |-> "Desc"]>>}

EvalLimits == {None, Some(IntVal(FALSE, "1")), Some(IntVal(FALSE, "2"))}
EvalOffsets == {None, Some(IntVal(FALSE, "1")), Some(IntVal(FALSE, "2"))}

\* the queries a caller of the builder hands to the evaluator
EvalQueries ==
    [clauses : EvalClauseLists, order_by : EvalOrderings,
     limit : EvalLimits, offset : EvalOffsets]

InitEval ==
    /\ pc = "call"
    /\ arg \in [call : {"evaluate"}, records : SeqsUpTo(RecordPool, MaxRecords)]
    /\ ret = NoValue
    /\ pairs = <<>>
    /\ pos = 0
    /\ current_group = "And"
    /\ query \in EvalQueries
    /\ result = NoValue

CallFilter ==
    /\ pc = "call"
    /\ arg.call = "evaluate"
    /\ ret' = [fn |-> "filter", v |-> QueryFilter(query, arg.records)]
    /\ pc' = "done"
    /\ UNCHANGED <<arg, pairs, pos, current_group, query, result>>

CallCount ==
    /\ pc = "call"
    /\ arg.call = "evaluate"
    /\ ret' = [fn |-> "count", v |-> QueryCount(query, arg.records)]
    /\ pc' = "done"
    /\ UNCHANGED <<arg, pairs, pos, current_group, query, result>>

NextEval == CallFilter \/ CallCount

SpecEval == InitEval /\ [][NextEval]_vars

\* the input positions of the records the clause tree is true for
Surviving == {i \in 1..Len(arg.records) : Matches(query, arg.records[i])}

\* the sort key of input record i under the k-th OrderBy entry
SortKey(k, i) ==
    LET v == field_value(arg.records[i], query.order_by[k].field)
    IN  IF v.type = "Number" THEN v.n
        ELSE IF v.type = "Bool" THEN (IF v.b THEN 1 ELSE 0) ELSE 0

\* record i sorts before record j: on the first OrderBy entry their keys
\* differ on, the key of i comes first in that entry's direction
SortsBefore(i, j) ==
    \E k \in 1..Len(query.order_by) :
        /\ \A m \in 1..(k - 1) : SortKey(m, i) = SortKey(m, j)
        /\ IF query.order_by[k].dir = "Asc"
           THEN SortKey(k, i) < SortKey(k, j)
           ELSE SortKey(k, i) > SortKey(k, j)

\* the place of surviving record i in the stably sorted sequence
SortedPlace(i) ==
    1 + Cardinality({j \in Surviving :
            \/ SortsBefore(j, i)
            \/ (~SortsBefore(i, j) /\ ~SortsBefore(j, i) /\ j < i)})

CountOf(o) == NumeralValue(o.v.mag)

\* C19: the result of evaluating a Query holds the surviving records in
\* stably sorted order (first OrderBy entry most significant, input order
\* among records equal on all keys) without the first offset of them and
\* cut to at most limit records.
C19_FilterSortThenOffsetThenLimit ==
    Returned("filter") =>
        LET offset == IF query.offset = None THEN 0 ELSE CountOf(query.offset)
            left == IF Cardinality(Surviving) > offset
                    THEN Cardinality(Surviving) - offset ELSE 0
            length == IF query.limit # None /\ CountOf(query.limit) < left
                      THEN CountOf(query.limit) ELSE left
        IN  /\ Len(ret.v) = length
            /\ \A i \in Surviving :
                (SortedPlace(i) > offset /\ SortedPlace(i) <= offset + length)
                    => ret.v[SortedPlace(i) - offset] = arg.records[i]

C19_Witness ==
    /\ Returned("filter")
    /\ query = [clauses |-> <<>>,
                order_by |-> <<[field |-> "priority", dir |-> "Asc"]>>,
                limit |-> Some(IntVal(FALSE, "1")),
                offset |-> Some(IntVal(FALSE, "1"))]
    /\ arg.records = <<Record("calm", 2, FALSE), Record("urgent a", 1, FALSE),
                       Record("urgent b", 1, TRUE)>>
    /\ ret.v = <<Record("urgent b", 1, TRUE)>>

\* C20: count is the number of input records the clause tree is true for,
\* whatever the ordering, limit and offset of the query are: the length of
\* the result the query gives without limit and offset, and 0 on no records.
C20_CountIsNumberOfSurvivors ==
    Returned("count") =>
        /\ ret.v = Cardinality(Surviving)
        /\ ret.v = Len(QueryFilter([query EXCEPT !.limit = None, !.offset = None],
                                   arg.records))
        /\ arg.records = <<>> => ret.v = 0

C20_Witness ==
    /\ Returned("count")
    /\ query.limit = Some(IntVal(FALSE, "1"))
    /\ query.offset = Some(IntVal(FALSE, "2"))
    /\ Len(query.order_by) = 2
    /\ Len(query.clauses) = 1
    /\ arg.records = <<Record("urgent b", 1, TRUE), Record("calm", 2, FALSE),
                       Record("urgent a", 1, FALSE)>>
    /\ ret.v = 2

(***************************************************************************)
(* SpecLeaf: a caller that evaluates one Leaf against one accessor result  *)
(***************************************************************************)
\* a literal of each field type, a pattern under Regex and a list under In
LeafLiteral(t, op) ==
    CASE t = "String" -> IF op = "Regex" THEN "^a" ELSE "a"
      [] t = "Number" -> "1"
      [] t = "Timestamp" -> "86400000"
      [] t = "Enum" -> IF op = "In" THEN "0, 1" ELSE "1"
      [] t = "Bool" -> "true"

\* the field of that type in the schema of the parser's tests
LeafField(t) ==
    CASE t = "String" -> "name"
      [] t = "Number" -> "priority"
      [] t = "Timestamp" -> "created-at"
      [] t = "Enum" -> "status"
      [] t = "Bool" -> "done"

\* the leaves the parser builds: every operator of every field type
LeafClauses ==
    {Leaf(g, LeafField(x[1]), x[2],
          parse_value(LeafLiteral(x[1], x[2]), LeafField(x[1]), x[1], x[2]).v) :
        g \in {"And", "Or", "Not"},
        x \in {y \in SeekTypes \X Ops : is_valid_operator(y[1], y[2])}}

\* what the accessor may return for the field of the leaf
LeafValues ==
    {ValueNone, ValueString("a"), ValueString("b"), ValueNumber(1),
     ValueNumber(2), ValueTimestamp(1, 0), ValueTimestamp(0, 5), ValueEnum(0),
     ValueEnum(1), ValueBool(TRUE), ValueBool(FALSE)}

InitLeaf ==
    /\ pc = "call"
    /\ arg \in [call : {"evaluate_leaf"}, clause : LeafClauses, value : LeafValues]
    /\ ret = NoValue
    /\ pairs = <<>>
    /\ pos = 0
    /\ current_group = "And"
    /\ query = QueryBuild([QueryNew EXCEPT !.clauses = <<arg.clause>>])
    /\ result = NoValue

\* the leaf alone
CallLeafMatches ==
    /\ pc = "call"
    /\ arg.call = "evaluate_leaf"
    /\ ret' = [fn |-> "leaf", v |-> LeafMatches(arg.clause, arg.value)]
    /\ pc' = "done"
    /\ UNCHANGED <<arg, pairs, pos, current_group, query, result>>

\* the query of that one leaf on a record whose accessor returns the value
CallMatches ==
    /\ pc = "call"
    /\ arg.call = "evaluate_leaf"
    /\ ret' = [fn |-> "tree",
               v |-> Matches(query, [f \in {arg.clause.field} |-> arg.value])]
    /\ pc' = "done"
    /\ UNCHANGED <<arg, pairs, pos, current_group, query, result>>

NextLeaf == CallLeafMatches \/ CallMatches

SpecLeaf == InitLeaf /\ [][NextLeaf]_vars

\* the type of Value a ClauseValue is compared with
ComparedWith(clause_value) ==
    CASE clause_value.type \in {"String", "Regex"} -> "String"
      [] clause_value.type \in {"Enum", "EnumSet"} -> "Enum"
      [] OTHER -> clause_value.type

Mismatched == arg.value.type # ComparedWith(arg.clause.value)

\* C21: evaluation always gives a truth value, and a leaf whose accessor
\* result is of another type than its ClauseValue, Value::None included, is
\* a non-match: false for the leaf, and false for the query of that leaf
\* added under And or Or.
C21_TypeMismatchIsNonMatch ==
    (pc = "done" /\ arg.call = "evaluate_leaf") =>
        /\ ret.v \in BOOLEAN
        /\ Mismatched =>
            /\ ret.fn = "leaf" => ret.v = FALSE
            /\ (ret.fn = "tree" /\ arg.clause.group \in {"And", "Or"})
                    => ret.v = FALSE

C21_Witness ==
    /\ Returned("leaf")
    /\ arg.value = ValueNone
    /\ arg.clause.op = "Ne"
    /\ arg.clause.value.type = "Number"
    /\ ret.v = FALSE

(***************************************************************************)
(* SpecEndToEnd: a caller that parses pairs under its own schema and       *)
(* evaluates the query on one record                                       *)
(***************************************************************************)
\* the schema of the module's example (Task) and a schema of one Number field
TaskSchema == Schema(<<"name", "priority">>, <<"String", "Number">>)
NumberFieldSchema == Schema(<<"a">>, <<"Number">>)

EndToEndChoices ==
    {Pair("a-eq", "1"), Pair("a-eq", "2"), Pair("OR", ""), Pair("AND", ""),
     Pair("name-contains", "urgent"), Pair("priority-gte", "3"),
     Pair("order", "priority-desc")}

TaskRecord(name, priority) ==
    [name |-> ValueString(name), priority |-> ValueNumber(priority)]
NumberFieldRecord(a) == [a |-> ValueNumber(a)]

EndToEndRecords ==
    {TaskRecord("very urgent task", 5), TaskRecord("calm task", 5),
     TaskRecord("urgent", 2), NumberFieldRecord(1), NumberFieldRecord(2),
     NumberFieldRecord(3)}

InitEndToEnd ==
    /\ pc = "loop"
    /\ arg \in [schema : {TaskSchema, NumberFieldSchema}, record : EndToEndRecords]
    /\ ret = NoValue
    /\ pairs \in SeqsUpTo(EndToEndChoices, MaxPairs)
    /\ pos = 0
    /\ current_group = "And"
    /\ query = QueryNew
    /\ result = NoValue

\* query.filter on the record, once parse_query has returned Ok(query)
EvaluateParsed ==
    /\ pc = "done"
    /\ result.tag = "Ok"
    /\ ret = NoValue
    /\ ret' = [fn |-> "filter", v |-> QueryFilter(result.v, <<arg.record>>)]
    /\ UNCHANGED <<pc, arg, pairs, pos, current_group, query, result>>

NextEndToEnd == Next \/ EvaluateParsed

SpecEndToEnd == InitEndToEnd /\ [][NextEndToEnd]_vars

Evaluated == pc = "done" /\ ret # NoValue

\* the record is in the result of the evaluation
RecordMatched == ret.v = <<arg.record>>

GroupMarkerExample == <<Pair("a-eq", "1"), Pair("OR", ""), Pair("a-eq", "2")>>

\* C22: the query parsed from [("a-eq","1"), ("OR",""), ("a-eq","2")] holds
\* for a record iff its field a is 1 or 2.
C22_OrMarkerEndToEnd ==
    (Evaluated /\ pairs = GroupMarkerExample) =>
        /\ ret.v \in {<<>>, <<arg.record>>}
        /\ RecordMatched <=>
                field_value(arg.record, "a") \in {ValueNumber(1), ValueNumber(2)}

C22_Witness ==
    /\ Evaluated
    /\ pairs = GroupMarkerExample
    /\ arg.record = NumberFieldRecord(2)
    /\ RecordMatched

\* what the clause of a field pair asks of a record
PairHolds(p, record) ==
    CASE p = Pair("a-eq", "1") -> field_value(record, "a") = ValueNumber(1)
      [] p = Pair("a-eq", "2") -> field_value(record, "a") = ValueNumber(2)
      [] p = Pair("name-contains", "urgent") ->
            /\ field_value(record, "name").type = "String"
            /\ IsSubstring("urgent", field_value(record, "name").s)
      [] p = Pair("priority-gte", "3") ->
            /\ field_value(record, "priority").type = "Number"
            /\ field_value(record, "priority").n >= 3

ModuleExample == <<Pair("name-contains", "urgent"), Pair("priority-gte", "3")>>

\* C23: a query parsed from pairs without a group marker holds for a record
\* iff every clause holds for it; under the schema {name: String, priority:
\* Number} the pairs [("name-contains","urgent"), ("priority-gte","3")]
\* match {name: "very urgent task", priority: 5} and reject {name: "calm
\* task", priority: 5}.
C23_NoMarkerIsConjunction ==
    (Evaluated /\ \A i \in 1..Len(pairs) : ~MarkerAt(i)) =>
        /\ RecordMatched <=>
                \A i \in 1..Len(pairs) : FieldAt(i) => PairHolds(pairs[i], arg.record)
        /\ (pairs = ModuleExample /\ arg.schema = TaskSchema) =>
            /\ arg.record = TaskRecord("very urgent task", 5) => RecordMatched
            /\ arg.record = TaskRecord("calm task", 5) => ret.v = <<>>

C23_Witness ==
    /\ Evaluated
    /\ pairs = ModuleExample
    /\ arg.schema = TaskSchema
    /\ arg.record = TaskRecord("calm task", 5)
    /\ ret.v = <<>>

(***************************************************************************)
(* SpecReaders: several readers evaluate one built Query on the same       *)
(* records at the same time.  A reader scans the records one at a time,    *)
(* keeps those the clause tree is true for, and at the end sorts and       *)
(* paginates (filter) or counts (count) what it kept.  The steps of the    *)
(* readers interleave in any order.                                        *)
(***************************************************************************)
MaxReaders == 2

Readers == 1..MaxReaders

ReaderRecords == {Record("urgent a", 1, FALSE), Record("calm", 2, TRUE)}

ReaderQueries ==
    {[clauses |-> <<>>, order_by |-> <<[field |-> "priority", dir |-> "Desc"]>>,
      limit |-> Some(IntVal(FALSE, "1")), offset |-> Some(IntVal(FALSE, "1"))],
     [clauses |-> <<Leaf("And", "name", "Contains",
                         [type |-> "String", s |-> "urgent"])>>,
      order_by |-> <<>>, limit |-> None, offset |-> None],
     [clauses |-> <<Leaf("Not", "done", "Is", [type |-> "Bool", b |-> TRUE])>>,
      order_by |-> <<[field |-> "priority", dir |-> "Asc"]>>,
      limit |-> Some(IntVal(FALSE, "2")), offset |-> None]}

\* a reader before its first record
ReaderStart(entry) == [entry |-> entry, at |-> 0, kept |-> <<>>, out |-> NoValue]

InitReaders ==
    /\ pc = [r \in Readers |-> "scan"]
    /\ arg \in [call : {"readers"}, records : SeqsUpTo(ReaderRecords, MaxRecords)]
    /\ ret \in [Readers -> {ReaderStart("filter"), ReaderStart("count")}]
    /\ pairs = <<>>
    /\ pos = 0
    /\ current_group = "And"
    /\ query \in ReaderQueries
    /\ result = NoValue

\* reader r evaluates the clause tree on its next record
ReaderScan(r) ==
    /\ pc[r] = "scan"
    /\ ret[r].at < Len(arg.records)
    /\ LET record == arg.records[ret[r].at + 1] IN
       ret' = [ret EXCEPT ![r].at = @ + 1,
                          ![r].kept = IF Matches(query, record)
                                      THEN Append(@, record) ELSE @]
    /\ UNCHANGED <<pc, arg, pairs, pos, current_group, query, result>>

\* a mutant of ReaderFinish: the offset is kept as a counter in the query
\* and used up by the reader that skips the records
ReaderFinish_uses_up_offset(r) ==
    /\ pc[r] = "scan"
    /\ ret[r].at = Len(arg.records)
    /\ ret' = [ret EXCEPT ![r].out =
                IF ret[r].entry = "filter"
                THEN Paginate(query, SortedBy(query.order_by, ret[r].kept,
                                              Len(ret[r].kept)))
                ELSE Len(ret[r].kept)]
    /\ pc' = [pc EXCEPT ![r] = "done"]
    /\ query' = IF ret[r].entry = "filter" THEN [query EXCEPT !.offset = None]
                ELSE query
    /\ UNCHANGED <<arg, pairs, pos, current_group, result>>

\* reader r has seen every record: filter sorts and paginates what it kept,
\* count returns how many it kept
ReaderFinish(r) ==
    /\ pc[r] = "scan"
    /\ ret[r].at = Len(arg.records)
    /\ ret' = [ret EXCEPT ![r].out =
                IF ret[r].entry = "filter"
                THEN Paginate(query, SortedBy(query.order_by, ret[r].kept,
                                              Len(ret[r].kept)))
                ELSE Len(ret[r].kept)]
    /\ pc' = [pc EXCEPT ![r] = "done"]
    /\ UNCHANGED <<arg, pairs, pos, current_group, query, result>>

NextReaders == \E r \in Readers : ReaderScan(r) \/ ReaderFinish(r)

SpecReaders == InitReaders /\ [][NextReaders]_vars

\* what a lone evaluation of the query on the records returns
LoneResult(entry) ==
    IF entry = "filter" THEN QueryFilter(query, arg.records)
    ELSE QueryCount(query, arg.records)

\* C24: no step of an evaluation changes the clause tree, ordering, limit or
\* offset of the Query, and in every interleaving of the readers' steps a
\* reader that has finished holds the result a lone evaluation of the same
\* query on the same records returns.
C24_ReadersLeaveQueryUnchanged ==
    [][/\ query' = query
       /\ \A r \in Readers :
            pc'[r] = "done" => ret'[r].out = LoneResult(ret'[r].entry)]_vars

\* a reader has finished a filter that skipped a record while another is in
\* the middle of its scan
C24_Witness ==
    /\ pc[1] = "done"
    /\ ret[1].entry = "filter"
    /\ ret[1].out = <<Record("urgent a", 1, FALSE)>>
    /\ query.offset = Some(IntVal(FALSE, "1"))
    /\ pc[2] = "scan"
    /\ ret[2].entry = "filter"
    /\ ret[2].at = 1
    /\ Len(arg.records) = 2

(***************************************************************************)
(* SpecPaging: parse_query on pair lists with several limit, offset and    *)
(* ordering pairs                                                          *)
(***************************************************************************)
PagingChoices ==
    {Pair("limit", "10"), Pair("limit", "3"), Pair("LIMIT", "abc"),
     Pair("limit", "-1"), Pair("limit", "+7"),
     Pair("limit", "18446744073709551616"), Pair("offset", "5"),
     Pair("skip", "2"), Pair("Skip", ""), Pair("order", "priority-desc"),
     Pair("sort", "done"), Pair("name-contains", "x"), Pair("OR", "")}

InitPaging ==
    /\ pc = "loop"
    /\ arg = NoValue
    /\ ret = NoValue
    /\ pairs \in SeqsUpTo(PagingChoices, MaxPairs)
    /\ pos = 0
    /\ current_group = "And"
    /\ query = QueryNew
    /\ result = NoValue

SpecPaging == InitPaging /\ [][Next]_vars

LimitAt(i) == ~MarkerAt(i) /\ ToLower(pairs[i].key) = "limit"
OffsetAt(i) == ~MarkerAt(i) /\ ToLower(pairs[i].key) \in {"offset", "skip"}
OrderAt(i) ==
    ~MarkerAt(i) /\ ToLower(pairs[i].key) \in {"order", "orderby", "order-by", "sort"}

\* a non-negative integer the size of a pointer holds: digits, with or
\* without a + in front
Unsigned(v) == IF v # "" /\ Head(v) = "+" THEN Tail(v) ELSE v
IsCount(v) ==
    /\ Unsigned(v) # ""
    /\ \A i \in 1..Len(Unsigned(v)) : IsWordOf(CharAt(Unsigned(v), i),
            {"0", "1", "2", "3", "4", "5", "6", "7", "8", "9"})
    /\ MagLeq(StripZeros(Unsigned(v)), U64Max)
CountValue(v) == IntVal(FALSE, StripZeros(Unsigned(v)))

\* the value of the last of the pairs S, None when there is none
LastValue(S) ==
    IF S = {} THEN None
    ELSE Some(CountValue(pairs[CHOOSE j \in S : \A k \in S : k <= j].value))

\* the orderings of the ordering pairs among the first n pairs, in pair order
RECURSIVE OrderingsUpTo(_)
OrderingsUpTo(n) ==
    IF n = 0 THEN <<>>
    ELSE IF OrderAt(n)
         THEN Append(OrderingsUpTo(n - 1),
                     [field |-> OrderingField(pairs[n].value),
                      dir |-> OrderingDir(pairs[n].value)])
         ELSE OrderingsUpTo(n - 1)

\* the first OrderBy entry decides the order of two records that differ on it
FirstOrderingDecides(q) ==
    q.order_by # <<>> =>
        \A a, b \in RecordPool :
            ValueCompare(field_value(a, q.order_by[1].field),
                         field_value(b, q.order_by[1].field)) < 0 =>
                LET want == IF q.order_by[1].dir = "Asc" THEN <<a, b>> ELSE <<b, a>>
                IN  /\ SortedBy(q.order_by, <<a, b>>, 2) = want
                    /\ SortedBy(q.order_by, <<b, a>>, 2) = want

\* C25: a limit or offset/skip pair whose value is not a non-negative
\* integer ends parse_query with InvalidLimit (key "limit" or "offset", and
\* the value); otherwise the limit (offset) of the query is the value of the
\* last limit (offset/skip) pair processed, and the ordering list holds the
\* orderings of the ordering pairs in pair order, the first entry deciding
\* the order of the records first.
C25_LastLimitWinsOrderingsAppend ==
    /\ query.limit = LastValue({j \in 1..pos : LimitAt(j)})
    /\ query.offset = LastValue({j \in 1..pos : OffsetAt(j)})
    /\ query.order_by = OrderingsUpTo(pos)
    /\ \A i \in 1..pos : (LimitAt(i) \/ OffsetAt(i)) => IsCount(pairs[i].value)
    /\ (pc = "done" /\ result.tag = "Ok") =>
        /\ pos = Len(pairs)
        /\ result.v = query
        /\ FirstOrderingDecides(result.v)
    /\ (pc = "done" /\ result.tag = "Err") =>
        /\ (LimitAt(pos + 1) \/ OffsetAt(pos + 1)) =>
            /\ ~IsCount(pairs[pos + 1].value)
            /\ result.e = [kind |-> "InvalidLimit",
                           key |-> IF LimitAt(pos + 1) THEN "limit" ELSE "offset",
                           value |-> pairs[pos + 1].value]
        /\ result.e.kind = "InvalidLimit" => (LimitAt(pos + 1) \/ OffsetAt(pos + 1))

C25_Witness ==
    /\ pc = "done"
    /\ pairs = <<Pair("limit", "10"), Pair("sort", "done"), Pair("limit", "3")>>
    /\ result.tag = "Ok"
    /\ result.v.limit = Some(IntVal(FALSE, "3"))
    /\ result.v.order_by = <<[field |-> "done", dir |-> "Asc"]>>

(***************************************************************************)
(* SpecDefault: the callers of SeekType::default_operator: a direct call,  *)
(* and parse_query on field pairs with and without an operator in the key  *)
(***************************************************************************)
InitDefault == InitOp \/ InitClause

NextDefault == NextOp \/ Next

SpecDefault == InitDefault /\ [][NextDefault]_vars

\* C26: for every SeekType the default operator is Eq, or Is for Bool, and
\* is_valid_operator accepts it for that type; and parse_query returns
\* InvalidOperator only for a key that carries an operator suffix.
C26_DefaultOperatorIsValid ==
    /\ (pc = "done" /\ ret # NoValue /\ ret.fn = "default_operator") =>
        /\ ret.v = IF arg.t = "Bool" THEN "Is" ELSE "Eq"
        /\ ret.v \in CompatibilityTable[arg.t]
        /\ is_valid_operator(arg.t, ret.v)
    /\ (pc = "done" /\ result.tag = "Err" /\ result.e.kind = "InvalidOperator") =>
        KeyHasOperator(pairs[pos + 1].key)

\* a key without a suffix on a field of every type but String was accepted
\* with the default operator
C26_Witness ==
    /\ pc = "done"
    /\ pairs = <<Pair("status", "active"), Pair("done", ""), Pair("created-at", "0")>>
    /\ result.tag = "Ok"
    /\ result.v.clauses[1].op = "Eq"
    /\ result.v.clauses[2].op = "Is"
    /\ result.v.clauses[3].op = "Eq"

(***************************************************************************)
(* SpecTables: a caller that looks one word up in both operator tables, as *)
(* parse_key does with the last segment of a key, and a caller of          *)
(* parse_key on keys that end in such a word                               *)
(***************************************************************************)
TableWords == {a.value : a \in OperatorArgs}

TableArgs ==
    [call : {"tables"}, value : TableWords]
        \cup {[call |-> "parse_key", value |-> Join(<<f, w>>, "-")] :
                f \in {"name", "created-at", ""}, w \in TableWords}
        \cup [call : {"parse_key"}, value : TableWords]

InitTables ==
    /\ pc = "call"
    /\ arg \in TableArgs
    /\ ret = NoValue
    /\ PqIdle

\* operator_names().contains(word) and parse_operator(word)
CallBothTables ==
    /\ pc = "call"
    /\ arg.call = "tables"
    /\ ret' = [fn |-> "tables",
               v |-> [listed |-> arg.value \in operator_names,
                      op |-> parse_operator(arg.value)]]
    /\ pc' = "done"
    /\ UNCHANGED <<arg, pairs, pos, current_group, query, result>>

CallParseKeyOf ==
    /\ pc = "call"
    /\ arg.call = "parse_key"
    /\ ret' = [fn |-> "parse_key", v |-> parse_key(arg.value)]
    /\ pc' = "done"
    /\ UNCHANGED <<arg, pairs, pos, current_group, query, result>>

NextTables == CallBothTables \/ CallParseKeyOf

SpecTables == InitTables /\ [][NextTables]_vars

\* no letter of the word is an upper-case letter
IsLowerCase(s) ==
    \A i \in 1..Len(s) :
        \A j \in 1..Len(UpperAlphabet) : CharAt(s, i) # CharAt(UpperAlphabet, j)

\* C27: a word is in the set operator_names() returns exactly when it is in
\* lower case and parse_operator returns Some for it; and whenever the field
\* parse_key returns differs from the key, the operator it returns is Some.
C27_OperatorTablesAgree ==
    /\ Returned("tables") =>
        (ret.v.listed <=> (IsLowerCase(arg.value) /\ ret.v.op # None))
    /\ Returned("parse_key") =>
        (ret.v.field # arg.value => ret.v.op # None)

C27_Witness ==
    /\ Returned("parse_key")
    /\ arg.value = "created-at-match"
    /\ ret.v = [field |-> "created-at", op |-> Some("Regex")]

(***************************************************************************)
(* SpecFieldNames: parse_query under schemas that have fields whose names  *)
(* end in, or are, an operator name                                        *)
(***************************************************************************)
FieldNameSchemas ==
    {Schema(<<"check-in">>, <<"Timestamp">>),
     Schema(<<"check-in", "check", "in">>, <<"Timestamp", "Enum", "Number">>),
     Schema(<<"check-in", "check", "in", "is">>,
            <<"Timestamp", "Number", "Number", "Bool">>)}

FieldNameChoices ==
    {Pair("check-in", "1970-01-02"), Pair("check-in", "1"),
     Pair("Check-IN", "1"), Pair("check-in-before", "1970-01-02"),
     Pair("check-in-eq", "0"), Pair("in", "5"), Pair("is", ""),
     Pair("OR", ""), Pair("limit", "1")}

InitFieldNames ==
    /\ pc = "loop"
    /\ arg \in [schema : FieldNameSchemas]
    /\ ret = NoValue
    /\ pairs \in SeqsUpTo(FieldNameChoices, MaxPairs)
    /\ pos = 0
    /\ current_group = "And"
    /\ query = QueryNew
    /\ result = NoValue

SpecFieldNames == InitFieldNames /\ [][Next]_vars

\* the key is made of several segments and its last one is an operator name
EndsInOperatorName(k) ==
    /\ LastDash(k) > 0
    /\ IsWordOf(SubSeq(k, LastDash(k) + 1, Len(k)), DOMAIN SpecOperatorTable)
KeyPrefix(k) == SubSeq(k, 1, LastDash(k) - 1)
IsSchemaField(f) == \E i \in DOMAIN arg.schema.names : arg.schema.names[i] = f
TypeOfField(f) ==
    arg.schema.types[CHOOSE i \in DOMAIN arg.schema.names : arg.schema.names[i] = f]

\* C28: a key of several segments whose last segment is an operator name is
\* looked up by its prefix, with that operator, also when the whole key is
\* a field of the schema: its clause is on the prefix, and an unknown
\* prefix or an operator the prefix's type does not take ends the parse
\* with the prefix as the field of the error.  A key of one segment is
\* looked up as it is and gets the default operator of its field, also when
\* it is an operator name.
C28_OperatorSegmentStrippedBeforeLookup ==
    /\ \A i \in 1..pos : FieldAt(i) =>
        LET k == pairs[i].key
            c == query.clauses[FieldPairsUpTo(i)]
        IN  /\ EndsInOperatorName(k) =>
                /\ c.field = KeyPrefix(k)
                /\ c.field # k
                /\ c.op = SpecOperatorTable[ToLower(SubSeq(k, LastDash(k) + 1, Len(k)))]
            /\ LastDash(k) = 0 =>
                /\ c.field = k
                /\ c.op = IF TypeOfField(k) = "Bool" THEN "Is" ELSE "Eq"
    /\ (Failed /\ FieldAt(pos + 1) /\ EndsInOperatorName(pairs[pos + 1].key)) =>
        LET k == pairs[pos + 1].key IN
        /\ ~IsSchemaField(KeyPrefix(k)) =>
                /\ result.e.kind = "UnknownField"
                /\ result.e.field = KeyPrefix(k)
                /\ result.e.available = arg.schema.names
        /\ IsSchemaField(KeyPrefix(k)) =>
                /\ result.e.kind \in {"InvalidOperator", "InvalidValue"}
                /\ result.e.field = KeyPrefix(k)

\* the key "check-in" of the field check-in gave a clause on check under In,
\* then the key "in" a clause on the field in, and the field check-in was
\* reached through the key "check-in-before"
C28_Witness ==
    /\ pc = "done"
    /\ result.tag = "Ok"
    /\ IsSchemaField("check-in")
    /\ pairs = <<Pair("check-in", "1"), Pair("in", "5"),
                 Pair("check-in-before", "1970-01-02")>>
    /\ result.v.clauses[1].field = "check"
    /\ result.v.clauses[1].op = "In"
    /\ result.v.clauses[2].field = "in"
    /\ result.v.clauses[2].op = "Eq"
    /\ result.v.clauses[3].field = "check-in"

(***************************************************************************)
(* SpecDates: callers of parse_date_only, of parse_datetime and of         *)
(* parse_value on a Timestamp field, on literals whose month and day go    *)
(* below and above their ranges                                            *)
(***************************************************************************)
RangeYears == {"2024", "1969", "-1", "20x4"}
RangeMonths == {"0", "00", "01", "2", "12", "13", "", "-1", "+1", "4294967295"}
RangeDays == {"0", "00", "1", "29", "31", "32", "", "+0"}

RangeLits ==
    [kind : {"date"}, y : RangeYears, m : RangeMonths, d : RangeDays]
        \cup [kind : {"datetime"}, y : RangeYears, m : RangeMonths, d : RangeDays,
              h : {"00", "24"}, mi : {"30"}, s : {"00", "60"}, frac : {"", ".5"},
              z : {"", "Z"}]

RangeArgs ==
    {[call |-> "parse_value", value |-> LitText(lit), field |-> "created-at",
      field_type |-> "Timestamp", op |-> "Eq", lit |-> lit] : lit \in RangeLits}

InitDates ==
    /\ pc = "call"
    /\ arg \in RangeArgs
    /\ ret = NoValue
    /\ PqIdle

\* what the build makes of an index that went below 0
Resolved(r, overflow_checks) ==
    IF r # Underflow THEN r ELSE IF overflow_checks THEN Panic ELSE None

CallParseDateOnly ==
    /\ pc = "call"
    /\ arg.call = "parse_value"
    /\ \E overflow_checks \in BOOLEAN :
        ret' = [fn |-> "parse_date_only",
                call |-> parse_date_only_call(arg.value),
                v |-> Resolved(parse_date_only(arg.value), overflow_checks)]
    /\ pc' = "done"
    /\ UNCHANGED <<arg, pairs, pos, current_group, query, result>>

CallParseDatetime ==
    /\ pc = "call"
    /\ arg.call = "parse_value"
    /\ \E overflow_checks \in BOOLEAN :
        ret' = [fn |-> "parse_datetime",
                call |-> parse_datetime_call(arg.value),
                v |-> Resolved(parse_datetime(arg.value), overflow_checks)]
    /\ pc' = "done"
    /\ UNCHANGED <<arg, pairs, pos, current_group, query, result>>

NextDates == CallParseDateOnly \/ CallParseDatetime \/ CallParseTimestamp

SpecDates == InitDates /\ [][NextDates]_vars

\* the month or the day of the literal is a numeral of value 0
NamesZero(lit) ==
    \/ Numeral(lit.m) /\ NumeralValue(lit.m) = 0
    \/ Numeral(lit.d) /\ NumeralValue(lit.d) = 0

\* C29: parse_date_only and parse_datetime call days_from_ymd with a month
\* in 1..12 and a day in 1..31 only, so neither ends in the fault of an
\* index below 0; for a literal whose month or day is 0 they return None
\* without the call, and parse_value on a Timestamp field returns
\* InvalidValue.
C29_DayCountCalledInRangeOnly ==
    /\ (Returned("parse_date_only") \/ Returned("parse_datetime")) =>
        /\ ret.call # None =>
            /\ ret.call.v.month \in 1..12
            /\ ret.call.v.day \in 1..31
        /\ ret.v # Panic
        /\ NamesZero(arg.lit) => (ret.call = None /\ ret.v = None)
    /\ Returned("parse_value") =>
        /\ ret.v.tag \in {"Ok", "Err"}
        /\ NamesZero(arg.lit) =>
            /\ ret.v.tag = "Err"
            /\ ret.v.e.kind = "InvalidValue"

\* a date with the month 00 was turned away before the call, one with the
\* month 12 and the day 31 went through it
C29_Witness ==
    /\ Returned("parse_date_only")
    /\ arg.value = "2024-12-31"
    /\ ret.call = Some([year |-> 2024, month |-> 12, day |-> 31])
    /\ ret.v.tag = "Some"

(***************************************************************************)
(* SpecDays: a caller of days_from_ymd on a calendar date and on the date  *)
(* that follows it                                                         *)
(***************************************************************************)
\* the date after a valid date, by the calendar of the specification
NextDate(y, m, d) ==
    IF d < DaysInMonth(y, m) THEN [y |-> y, m |-> m, d |-> d + 1]
    ELSE IF m < 12 THEN [y |-> y, m |-> m + 1, d |-> 1]
    ELSE [y |-> y + 1, m |-> 1, d |-> 1]

DateArgs ==
    {a \in [call : {"successive"}, y : CalendarYears, m : 1..12, d : 1..31] :
        ValidDate(a.y, a.m, a.d)}

InitDays ==
    /\ pc = "call"
    /\ arg \in DateArgs
    /\ ret = NoValue
    /\ PqIdle

CallOnDate ==
    /\ pc = "call"
    /\ arg.call = "successive"
    /\ ret' = [fn |-> "date", v |-> days_from_ymd(arg.y, arg.m, arg.d)]
    /\ pc' = "done"
    /\ UNCHANGED <<arg, pairs, pos, current_group, query, result>>

CallOnDateAndNext ==
    /\ pc = "call"
    /\ arg.call = "successive"
    /\ LET n == NextDate(arg.y, arg.m, arg.d) IN
       ret' = [fn |-> "successive",
               v |-> days_from_ymd(arg.y, arg.m, arg.d),
               next |-> days_from_ymd(n.y, n.m, n.d)]
    /\ pc' = "done"
    /\ UNCHANGED <<arg, pairs, pos, current_group, query, result>>

NextDays == CallOnDate \/ CallOnDateAndNext

SpecDays == InitDays /\ [][NextDays]_vars

\* C30: for a valid calendar date and the date that follows it, also over
\* the end of a month, of February in leap and other years and of a year,
\* and before 1970, days_from_ymd gives a count and for the following date
\* that count plus 1; the count of a date before 1970 is negative.
C30_SuccessorDateIsOneDayMore ==
    /\ Returned("successive") =>
        /\ ret.v.tag = "Some"
        /\ ret.next = Some(ret.v.v + 1)
    /\ Returned("date") =>
        /\ ret.v.tag = "Some"
        /\ arg.y < 1970 <=> ret.v.v < 0

\* from the 29th of February of 2000 to the 1st of March
C30_Witness ==
    /\ Returned("successive")
    /\ arg.y = 2000 /\ arg.m = 2 /\ arg.d = 29
    /\ ret.v = Some(11016)
    /\ ret.next = Some(11017)

====
